---- MODULE Spec2Model ----
(***************************************************************************)
(* The conversation state machine of the property-search chat bot:         *)
(* app/services/session_service.py (UserSession, SessionManager),          *)
(* app/services/property_service.py (search, keyword extraction) and the   *)
(* message boundary of app/services/whatsapp_service.py.                   *)
(*                                                                         *)
(* A text is a sequence of one-character strings, so that lower(), strip(),*)
(* isdigit(), int() and the regular expressions are computed, not assumed. *)
(* Two characters outside ASCII are written by name: "sup2" is the         *)
(* superscript two and "naira_sign" the currency sign.                     *)
(***************************************************************************)
EXTENDS Integers, Sequences, FiniteSets, TLC

VARIABLES scn, clock, sessions, heap, pending, nreq, ev, prev

vars == <<scn, clock, sessions, heap, pending, nreq, ev, prev>>

(***************************************************************************)
(* Characters and the str methods the handlers use.                        *)
(***************************************************************************)
UpperLetters == <<"A","B","C","D","E","F","G","H","I","J","K","L","M","N","O","P","Q","R","S","T","U","V","W","X","Y","Z">>
LowerLetters == <<"a","b","c","d","e","f","g","h","i","j","k","l","m","n","o","p","q","r","s","t","u","v","w","x","y","z">>

Whitespace == {" ", "\t", "\n"}

AsciiDigits == <<"0","1","2","3","4","5","6","7","8","9">>

\* str.isdigit() also accepts digit characters that int() rejects.
IsDigitChar(c) == (\E i \in 1..10 : AsciiDigits[i] = c) \/ c = "sup2"

IsDecimalChar(c) == \E i \in 1..10 : AsciiDigits[i] = c

DigitValue(c) == (CHOOSE i \in 1..10 : AsciiDigits[i] = c) - 1

lower_char(c) ==
    IF \E i \in 1..26 : UpperLetters[i] = c
    THEN LowerLetters[CHOOSE i \in 1..26 : UpperLetters[i] = c]
    ELSE c

\* str.lower()
lower(s) == [i \in 1..Len(s) |-> lower_char(s[i])]

\* str.strip(): drop leading and trailing whitespace
strip(s) ==
    LET keep == {i \in 1..Len(s) : s[i] \notin Whitespace}
    IN  IF keep = {} THEN <<>>
        ELSE LET lo == CHOOSE i \in keep : \A j \in keep : i <= j
                 hi == CHOOSE i \in keep : \A j \in keep : j <= i
             IN  SubSeq(s, lo, hi)

\* str.isdigit(): non-empty and every character a digit
isdigit(s) == Len(s) > 0 /\ \A i \in 1..Len(s) : IsDigitChar(s[i])

\* int() accepts decimal digits only; anything else raises ValueError
IntRaises(s) == Len(s) = 0 \/ \E i \in 1..Len(s) : ~IsDecimalChar(s[i])

RECURSIVE int(_)
int(s) == IF Len(s) = 0 THEN 0
          ELSE int(SubSeq(s, 1, Len(s) - 1)) * 10 + DigitValue(s[Len(s)])

\* s[i:].startswith(w)
StartsAt(s, i, w) == i + Len(w) - 1 <= Len(s) /\ SubSeq(s, i, i + Len(w) - 1) = w

\* the "w in s" substring test
Contains(s, w) == \E i \in 1..(Len(s) + 1) : StartsAt(s, i, w)

\* first index >= i whose character fails the class test, Len(s)+1 if none
RECURSIVE SkipWhile(_, _, _)
SkipWhile(s, i, class) ==
    IF i <= Len(s) /\ s[i] \in class THEN SkipWhile(s, i + 1, class) ELSE i

DecimalChars == {AsciiDigits[i] : i \in 1..10}

(***************************************************************************)
(* Texts: inbound messages and the vocabulary of the code.                 *)
(***************************************************************************)
M_0 == <<"0">>
M_1 == <<"1">>
M_2 == <<"2">>
M_3 == <<"3">>
M_4 == <<"4">>
M_5 == <<"5">>
M_6 == <<"6">>
M_7 == <<"7">>
M_8 == <<"8">>
M_1_padded == <<" ", "1", " ">>
M_99 == <<"9", "9">>
M_sup2 == <<"sup2">>
M_empty == <<>>
M_back == <<"b", "a", "c", "k">>
M_Back_padded == <<" ", "B", "a", "c", "k", " ">>
M_menu == <<"m", "e", "n", "u">>
M_MENU_padded == <<" ", "M", "E", "N", "U", "\t">>
M_Start == <<"S", "t", "a", "r", "t">>
M_help == <<"h", "e", "l", "p">>
M_Main == <<"M", "a", "i", "n">>
M_star == <<"*">>
M_star_padded == <<" ", "*", " ">>
M_quit == <<"q", "u", "i", "t">>
M_Exit_padded == <<"E", "x", "i", "t", " ">>
M_stop == <<"s", "t", "o", "p">>
M_END == <<"E", "N", "D">>
M_hi == <<"h", "i">>
M_Hello_padded == <<" ", "H", "e", "l", "l", "o">>
M_good_morning == <<"G", "o", "o", "d", " ", "M", "o", "r", "n", "i", "n", "g">>
M_xyz == <<"x", "y", "z", "1", "2", "3">>
M_natural == <<"3", " ", "b", "e", "d", "r", "o", "o", "m", " ", "a", "p", "a", "r", "t", "m", "e", "n", "t", "s", " ", "i", "n", " ", "L", "a", "g", "o", "s">>
M_houses_under == <<"H", "o", "u", "s", "e", "s", " ", "u", "n", "d", "e", "r", " ", "4", "0", " ", "m", "i", "l", "l", "i", "o", "n", " ", "n", "a", "i", "r", "a">>
M_office_abuja == <<"O", "f", "f", "i", "c", "e", " ", "s", "p", "a", "c", "e", "s", " ", "i", "n", " ", "A", "b", "u", "j", "a">>
M_exact_price == <<"f", "l", "a", "t", " ", "naira_sign", "5", "0", "m">>
M_0_bedroom_flat == <<"0", " ", "b", "e", "d", "r", "o", "o", "m", " ", "f", "l", "a", "t">>
M_under_exact == <<"naira_sign", "5", "0", "m", " ", "n", "o", "t", " ", "u", "n", "d", "e", "r", " ", "o", "f", "f", "e", "r">>

\* "under N2.5m" with the naira sign: both price patterns match
M_under_currency == <<"u", "n", "d", "e", "r", " ", "naira_sign", "2", ".", "5", "m">>

(***************************************************************************)
(* Vocabulary of the handlers and of the keyword extractor.                *)
(***************************************************************************)
MenuCommands ==
    { <<"m", "e", "n", "u">>,
      <<"s", "t", "a", "r", "t">>,
      <<"h", "e", "l", "p">>,
      <<"m", "a", "i", "n">>,
      <<"*">> }

BackCommand == <<"b", "a", "c", "k">>

QuitCommands ==
    { <<"q", "u", "i", "t">>,
      <<"e", "x", "i", "t">>,
      <<"s", "t", "o", "p">>,
      <<"e", "n", "d">> }

GreetingWords ==
    { <<"h", "i">>,
      <<"h", "e", "l", "l", "o">>,
      <<"h", "e", "y">>,
      <<"g", "o", "o", "d", " ", "m", "o", "r", "n", "i", "n", "g">>,
      <<"g", "o", "o", "d", " ", "a", "f", "t", "e", "r", "n", "o", "o", "n">>,
      <<"g", "o", "o", "d", " ", "e", "v", "e", "n", "i", "n", "g">>,
      <<"g", "r", "e", "e", "t", "i", "n", "g", "s">>,
      <<"h", "o", "l", "a">>,
      <<"h", "o", "w", "d", "y">> }

MainDigits ==
    { <<"1">>,
      <<"2">>,
      <<"3">>,
      <<"4">>,
      <<"5">>,
      <<"6">>,
      <<"7">>,
      <<"8">> }

W_bedroom == <<"b", "e", "d", "r", "o", "o", "m">>

ApartmentWords ==
    { <<"a", "p", "a", "r", "t", "m", "e", "n", "t">>,
      <<"f", "l", "a", "t">> }

HouseWords ==
    { <<"h", "o", "u", "s", "e">>,
      <<"d", "u", "p", "l", "e", "x">>,
      <<"b", "u", "n", "g", "a", "l", "o", "w">> }

OfficeWords ==
    { <<"o", "f", "f", "i", "c", "e">>,
      <<"c", "o", "m", "m", "e", "r", "c", "i", "a", "l">> }

\* the locations dict, in insertion order: <<key, value>>
Locations ==
   << <<<<"l", "a", "g", "o", "s">>, "Lagos">>,
      <<<<"a", "b", "u", "j", "a">>, "Abuja">>,
      <<<<"p", "o", "r", "t", " ", "h", "a", "r", "c", "o", "u", "r", "t">>, "Port Harcourt">>,
      <<<<"k", "a", "n", "o">>, "Kano">>,
      <<<<"i", "b", "a", "d", "a", "n">>, "Ibadan">> >>

W_under == <<"u", "n", "d", "e", "r">>

\* (?:naira_sign|naira|ngn), in the order the alternation tries them
CurrencyMarks ==
   << <<"naira_sign">>,
      <<"n", "a", "i", "r", "a">>,
      <<"n", "g", "n">> >>

\* (?:million|m)
MillionMarks ==
   << <<"m", "i", "l", "l", "i", "o", "n">>,
      <<"m">> >>

(***************************************************************************)
(* Filter mappings (Python dicts): functions on a finite set of keys.      *)
(***************************************************************************)
EmptyDict == [k \in {} |-> 0]

Put(d, k, v) == [x \in (DOMAIN d) \cup {k} |-> IF x = k THEN v ELSE d[x]]

Has(d, k) == k \in DOMAIN d

(***************************************************************************)
(* Keyword extractor: PropertySearchService.extract_search_keywords.       *)
(***************************************************************************)
\* r'(\d+)\s*bedroom': start positions of a match; the digit run cannot be
\* shortened by backtracking, because a digit would then have to match \s or b
BedroomStarts(s) ==
    {i \in 1..Len(s) :
        /\ s[i] \in DecimalChars
        /\ StartsAt(s, SkipWhile(s, SkipWhile(s, i, DecimalChars), Whitespace), W_bedroom)}

BedroomGroup(s) ==
    LET i == CHOOSE a \in BedroomStarts(s) : \A b \in BedroomStarts(s) : a <= b
    IN  SubSeq(s, i, SkipWhile(s, i, DecimalChars) - 1)

\* \d+(?:,\d{3})* against a whole text
RECURSIVE GroupedDigits(_)
GroupedDigits(t) ==
    \/ Len(t) > 0 /\ \A i \in 1..Len(t) : t[i] \in DecimalChars
    \/ /\ Len(t) >= 5
       /\ t[Len(t) - 3] = ","
       /\ \A i \in (Len(t) - 2)..Len(t) : t[i] \in DecimalChars
       /\ GroupedDigits(SubSeq(t, 1, Len(t) - 4))

\* \d+(?:,\d{3})*(?:\.\d+)? against a whole text
NumberText(t) ==
    LET dots == {i \in 1..Len(t) : t[i] = "."}
    IN  IF dots = {} THEN GroupedDigits(t)
        ELSE LET d == CHOOSE i \in dots : TRUE
             IN  /\ Cardinality(dots) = 1
                 /\ GroupedDigits(SubSeq(t, 1, d - 1))
                 /\ d < Len(t)
                 /\ \A i \in (d + 1)..Len(t) : t[i] \in DecimalChars

NumberChars == DecimalChars \cup {",", "."}

\* The number group starting at p, when the pattern's tail matches there:
\* (\d+(?:,\d{3})*(?:\.\d+)?)\s*(?:million|m).  The group is followed by
\* whitespace or "m", so it is the maximal run of number characters at p.
NumberEnd(s, p) == SkipWhile(s, p, NumberChars)

AmountAt(s, p) ==
    /\ NumberText(SubSeq(s, p, NumberEnd(s, p) - 1))
    /\ \E k \in 1..Len(MillionMarks) :
          StartsAt(s, SkipWhile(s, NumberEnd(s, p), Whitespace), MillionMarks[k])

\* positions right after one of the currency marks starting at p
AfterCurrency(s, p) ==
    {p + Len(CurrencyMarks[k]) : k \in {j \in 1..Len(CurrencyMarks) : StartsAt(s, p, CurrencyMarks[j])}}

\* r'under\s*(?:CUR)?\s*(NUMBER)\s*(?:million|m)': where the number group starts,
\* for a match whose "under" starts at i
UnderGroupStarts(s, i) ==
    IF ~StartsAt(s, i, W_under) THEN {}
    ELSE LET p == SkipWhile(s, i + Len(W_under), Whitespace)
             cands == {p} \cup {SkipWhile(s, q, Whitespace) : q \in AfterCurrency(s, p)}
         IN  {g \in cands : AmountAt(s, g)}

UnderStarts(s) == {i \in 1..Len(s) : UnderGroupStarts(s, i) # {}}

\* r'(?:CUR)\s*(NUMBER)\s*(?:million|m)'
ExactGroupStarts(s, i) ==
    {g \in {SkipWhile(s, q, Whitespace) : q \in AfterCurrency(s, i)} : AmountAt(s, g)}

ExactStarts(s) == {i \in 1..Len(s) : ExactGroupStarts(s, i) # {}}

Leftmost(S) == CHOOSE a \in S : \A b \in S : a <= b

RECURSIVE RemoveCommas(_)
RemoveCommas(t) ==
    IF Len(t) = 0 THEN <<>>
    ELSE IF Head(t) = "," THEN RemoveCommas(Tail(t))
    ELSE <<Head(t)>> \o RemoveCommas(Tail(t))

Pow10(n) == CASE n = 0 -> 1 [] n = 1 -> 10 [] n = 2 -> 100 [] n = 3 -> 1000
              [] n = 4 -> 10000 [] n = 5 -> 100000 [] OTHER -> 1000000

Million == 1000000

\* float(price_str) * 1_000_000 for the number text t (commas removed), as an
\* exact amount; decimals beyond the sixth are below one unit and are dropped
Millions(t) ==
    LET dots == {i \in 1..Len(t) : t[i] = "."}
    IN  IF dots = {} THEN int(t) * Million
        ELSE LET d    == CHOOSE i \in dots : TRUE
                 frac == SubSeq(t, d + 1, IF Len(t) - d > 6 THEN d + 6 ELSE Len(t))
             IN  int(SubSeq(t, 1, d - 1)) * Million + int(frac) * Pow10(6 - Len(frac))

GroupText(s, g) == SubSeq(s, g, NumberEnd(s, g) - 1)

TypeOf(s) ==
    IF \E w \in ApartmentWords : Contains(s, w) THEN "APARTMENT"
    ELSE IF \E w \in HouseWords : Contains(s, w) THEN "HOUSE"
    ELSE IF \E w \in OfficeWords : Contains(s, w) THEN "OFFICE"
    ELSE ""

LocationHits(s) == {k \in 1..Len(Locations) : Contains(s, Locations[k][1])}

\* Each rule's contribution to the filters; a later rule overwrites the keys
\* of an earlier one (f @@ g keeps f where both are defined).
\* an extractor that never reads a bedroom count: what C24 is compared
\* against
BedroomRule_unread(s) == EmptyDict

BedroomRule(s) ==
    IF BedroomStarts(s) # {} THEN [bedrooms |-> int(BedroomGroup(s))] ELSE EmptyDict

TypeRule(s) == IF TypeOf(s) # "" THEN [type |-> TypeOf(s)] ELSE EmptyDict

CityRule(s) ==
    IF LocationHits(s) # {}
    THEN [city |-> Locations[Leftmost(LocationHits(s))][2]]
    ELSE EmptyDict

UnderRule(s) ==
    IF UnderStarts(s) # {}
    THEN [max_price |->
            Millions(RemoveCommas(GroupText(s,
                Leftmost(UnderGroupStarts(s, Leftmost(UnderStarts(s)))))))]
    ELSE EmptyDict

TargetPrice(s) ==
    Millions(RemoveCommas(GroupText(s, Leftmost(ExactGroupStarts(s, Leftmost(ExactStarts(s)))))))

\* the price band taken whenever the currency pattern matches
ExactRule_despite_under(s) ==
    IF ExactStarts(s) # {}
    THEN [min_price |-> (TargetPrice(s) * 8) \div 10,
          max_price |-> (TargetPrice(s) * 12) \div 10]
    ELSE EmptyDict

\* target_price * 0.8 and target_price * 1.2
ExactRule(s) ==
    IF ExactStarts(s) # {} /\ ~Contains(s, W_under)
    THEN [min_price |-> (TargetPrice(s) * 8) \div 10,
          max_price |-> (TargetPrice(s) * 12) \div 10]
    ELSE EmptyDict

extract_search_keywords(message) ==
    ExactRule(lower(message)) @@ UnderRule(lower(message)) @@ CityRule(lower(message))
        @@ TypeRule(lower(message)) @@ BedroomRule(lower(message))

(***************************************************************************)
(* The Listing table and PropertySearchService.search_properties.          *)
(* A row is named by its position in Listing; the code never changes a row *)
(* it has fetched.  NULL stands for a column that is NULL.                 *)
(***************************************************************************)
NULL == "<NULL>"

Listing ==
   << [id |-> "lst-0001", title |-> "Lekki flat",    city |-> "Lagos", state |-> "Lagos", type |-> "APARTMENT", bedrooms |-> 3, price |-> 45000000,  status |-> "ACTIVE", featured |-> TRUE,  createdAt |-> 3],
      [id |-> "lst-0002", title |-> "Ikoyi duplex",  city |-> "lagos", state |-> "Lagos", type |-> "HOUSE",     bedrooms |-> 5, price |-> 120000000, status |-> "ACTIVE", featured |-> FALSE, createdAt |-> 8],
      [id |-> "lst-0003", title |-> "Wuse office",   city |-> "Abuja", state |-> "FCT",   type |-> "OFFICE",    bedrooms |-> 0, price |-> 30000000,  status |-> "ACTIVE", featured |-> FALSE, createdAt |-> 5],
      [id |-> "lst-0004", title |-> "Garki flat",    city |-> "Abuja", state |-> "FCT",   type |-> "APARTMENT", bedrooms |-> 2, price |-> 20000000,  status |-> "ACTIVE", featured |-> TRUE,  createdAt |-> 1],
      [id |-> "lst-0005", title |-> "Yaba flat",     city |-> "Lagos", state |-> "Lagos", type |-> "APARTMENT", bedrooms |-> 3, price |-> 60000000,  status |-> "ACTIVE", featured |-> FALSE, createdAt |-> 7],
      [id |-> "lst-0006", title |-> "Kano villa",    city |-> "Kano",  state |-> "Kano",  type |-> "HOUSE",     bedrooms |-> 6, price |-> 250000000, status |-> "ACTIVE", featured |-> FALSE, createdAt |-> 2],
      [id |-> "lst-0007", title |-> "Sold flat",     city |-> "Lagos", state |-> "Lagos", type |-> "APARTMENT", bedrooms |-> 1, price |-> 10000000,  status |-> "SOLD",   featured |-> TRUE,  createdAt |-> 9],
      [id |-> "lst-0008", title |-> NULL,            city |-> "Lagos", state |-> "Lagos", type |-> "HOUSE",     bedrooms |-> 4, price |-> 80000000,  status |-> "ACTIVE", featured |-> FALSE, createdAt |-> 4] >>

Rows == 1..Len(Listing)

\* SQL LOWER() and str.upper() on the column values and parameters in use
LowerStr(v) ==
    CASE v \in {"Lagos", "lagos"} -> "lagos"
      [] v = "Abuja" -> "abuja"
      [] v = "Port Harcourt" -> "port harcourt"
      [] v = "Kano" -> "kano"
      [] v = "Ibadan" -> "ibadan"
      [] v = "FCT" -> "fct"
      [] OTHER -> v

UpperStr(v) ==
    CASE v \in {"APARTMENT", "apartment", "Apartment"} -> "APARTMENT"
      [] v \in {"HOUSE", "house", "House"} -> "HOUSE"
      [] v \in {"OFFICE", "office", "Office"} -> "OFFICE"
      [] OTHER -> v

\* dict.get(key) is truthy: present, and not "" or 0
TruthyText(filters, k) == Has(filters, k) /\ filters[k] # ""

TruthyNumber(filters, k) == Has(filters, k) /\ filters[k] # 0

\* the WHERE clause built from the filters
Matches(r, filters) ==
    /\ Listing[r].status = "ACTIVE"
    /\ TruthyText(filters, "city") => LowerStr(Listing[r].city) = LowerStr(filters["city"])
    /\ TruthyText(filters, "state") => LowerStr(Listing[r].state) = LowerStr(filters["state"])
    /\ TruthyText(filters, "type") => Listing[r].type = UpperStr(filters["type"])
    /\ TruthyNumber(filters, "bedrooms") => Listing[r].bedrooms = filters["bedrooms"]
    /\ TruthyNumber(filters, "max_price") => Listing[r].price <= filters["max_price"]
    /\ TruthyNumber(filters, "min_price") => Listing[r].price >= filters["min_price"]

\* ORDER BY featured DESC, "createdAt" DESC
ComesBefore(a, b) ==
    \/ Listing[a].featured /\ ~Listing[b].featured
    \/ Listing[a].featured = Listing[b].featured /\ Listing[a].createdAt > Listing[b].createdAt

RECURSIVE Ordered(_)
Ordered(S) ==
    IF S = {} THEN <<>>
    ELSE LET first == CHOOSE a \in S : \A b \in S \ {a} : ComesBefore(a, b)
         IN  <<first>> \o Ordered(S \ {first})

\* LIMIT n
\* a LIMIT clause that is ignored: what C19 is compared against
Take_unlimited(q, n) == q

Take(q, n) == IF Len(q) <= n THEN q ELSE SubSeq(q, 1, n)

SearchLimit == 5

\* search_properties: table is the set of rows the store holds when the
\* query runs; db_raises says that connect or fetch_all raised.  Every
\* exception is caught inside and an empty list returned.
search_properties(filters, limit, table, db_raises) ==
    IF db_raises THEN <<>>
    ELSE Take(Ordered({r \in table : Matches(r, filters)}), limit)

(***************************************************************************)
(* Reply texts.  A text is the template that produced it and the values    *)
(* substituted into it: the echoed input, the user's name, the search      *)
(* description, the rows listed and a count.                               *)
(***************************************************************************)
\* a search description: a fixed label, or the label "Natural search: "
\* followed by the user's message
Description(label) == [label |-> label, query |-> <<>>]

NoDescription == Description("")

Text(tpl, echo, name, desc, rows, count) ==
    [tpl |-> tpl, echo |-> echo, name |-> name, desc |-> desc, rows |-> rows, count |-> count]

Plain(tpl) == Text(tpl, <<>>, "", NoDescription, <<>>, 0)

\* the raw text of an inbound message, as stored in the history
Verbatim(message) == Text("verbatim", message, "", NoDescription, <<>>, 0)

\* the templates that end with property_service.get_main_menu()
MainMenuTemplates ==
    {"welcome_back", "no_previous_step", "greeting", "returning_to_main_menu",
     "unrecognized_main", "no_properties_found", "sub_menu_zero", "back_to_main_menu"}

Response(type, message) == [type |-> type, message |-> message]

NoResponse == Response("", Plain(""))

NoQuery == [filters |-> EmptyDict, desc |-> NoDescription, natural |-> FALSE]

\* What a handler did: it returned a response, it is suspended in the await of
\* search_properties, or it raised.  ended: it called end_session.
Returned(s, response) ==
    [session |-> s, kind |-> "reply", response |-> response, ended |-> FALSE, query |-> NoQuery]

Awaiting(s, filters, desc, natural) ==
    [session |-> s, kind |-> "await", response |-> NoResponse, ended |-> FALSE,
     query |-> [filters |-> filters, desc |-> desc, natural |-> natural]]

Raised(s) ==
    [session |-> s, kind |-> "raise", response |-> NoResponse, ended |-> FALSE, query |-> NoQuery]

(***************************************************************************)
(* UserSession.                                                            *)
(***************************************************************************)
HistoryLimit == 20

UserSession(user_id, name, now) ==
    [user_id |-> user_id, name |-> name, current_menu |-> "main",
     search_filters |-> EmptyDict, conversation_step |-> 0, last_activity |-> now,
     conversation_history |-> <<>>, selected_property_ids |-> <<>>,
     current_context |-> "main", context_data |-> EmptyDict,
     available_options |-> <<>>, navigation_stack |-> <<>>,
     last_search_results |-> <<>>]

update_activity(s, now) == [s EXCEPT !.last_activity = now]

\* an add_to_history that keeps the first records of a full history: what
\* C22 is compared against
add_to_history_keeping_oldest(s, type, content, now) ==
    LET h == Append(s.conversation_history,
                    [timestamp |-> now, type |-> type, content |-> content])
    IN  [s EXCEPT !.conversation_history =
            IF Len(h) > HistoryLimit THEN SubSeq(h, 1, HistoryLimit) ELSE h]

add_to_history(s, type, content, now) ==
    LET h == Append(s.conversation_history,
                    [timestamp |-> now, type |-> type, content |-> content])
    IN  [s EXCEPT !.conversation_history =
            IF Len(h) > HistoryLimit THEN SubSeq(h, Len(h) - HistoryLimit + 1, Len(h)) ELSE h]

Frame(s) ==
    [context |-> s.current_context, menu |-> s.current_menu, step |-> s.conversation_step,
     data |-> s.context_data, options |-> s.available_options]

\* a set_context that saves no frame: what C9 is compared against
set_context_saving_nothing(s, context, data, available_options, now) ==
    update_activity(
        [s EXCEPT !.current_context = context,
                  !.context_data = data,
                  !.available_options = available_options],
        now)

\* a set_context that records the context as the current menu and counts the
\* step: what C38 is compared against
set_context_tracking_menu(s, context, data, available_options, now) ==
    update_activity(
        [s EXCEPT !.navigation_stack =
                      IF s.current_context # "main" THEN Append(@, Frame(s)) ELSE @,
                  !.current_context = context,
                  !.current_menu = context,
                  !.conversation_step = @ + 1,
                  !.context_data = data,
                  !.available_options = available_options],
        now)

\* a set_context that saves a frame whatever the context it leaves: what C20
\* is compared against
set_context_always_pushing(s, context, data, available_options, now) ==
    update_activity(
        [s EXCEPT !.navigation_stack = Append(@, Frame(s)),
                  !.current_context = context,
                  !.context_data = data,
                  !.available_options = available_options],
        now)

set_context(s, context, data, available_options, now) ==
    update_activity(
        [s EXCEPT !.navigation_stack =
                      IF s.current_context # "main" THEN Append(@, Frame(s)) ELSE @,
                  !.current_context = context,
                  !.context_data = data,
                  !.available_options = available_options],
        now)

\* a go_back that reports success on an empty stack: what C4 is compared
\* against
go_back_always_true(s, now) ==
    IF s.navigation_stack # <<>>
    THEN LET previous == s.navigation_stack[Len(s.navigation_stack)]
         IN  <<TRUE,
               update_activity(
                   [s EXCEPT !.navigation_stack = SubSeq(@, 1, Len(@) - 1),
                             !.current_context = previous.context,
                             !.current_menu = previous.menu,
                             !.conversation_step = previous.step,
                             !.context_data = previous.data,
                             !.available_options = previous.options],
                   now)>>
    ELSE <<TRUE, s>>

\* go_back: <<returned value, session>>
go_back(s, now) ==
    IF s.navigation_stack # <<>>
    THEN LET previous == s.navigation_stack[Len(s.navigation_stack)]
         IN  <<TRUE,
               update_activity(
                   [s EXCEPT !.navigation_stack = SubSeq(@, 1, Len(@) - 1),
                             !.current_context = previous.context,
                             !.current_menu = previous.menu,
                             !.conversation_step = previous.step,
                             !.context_data = previous.data,
                             !.available_options = previous.options],
                   now)>>
    ELSE <<FALSE, s>>

MainMenuOptions == <<"1", "2", "3", "4", "5", "6", "7", "8">>

\* a go_to_main_menu that leaves the navigation stack as it found it: what
\* C29 is compared against
go_to_main_menu_keeping_stack(s, now) ==
    update_activity(
        [s EXCEPT !.current_context = "main",
                  !.current_menu = "main",
                  !.conversation_step = 0,
                  !.context_data = EmptyDict,
                  !.available_options = MainMenuOptions],
        now)

\* a go_to_main_menu that leaves context_data as it found it: what C21 is
\* compared against
go_to_main_menu_keeping_data(s, now) ==
    update_activity(
        [s EXCEPT !.current_context = "main",
                  !.current_menu = "main",
                  !.conversation_step = 0,
                  !.available_options = MainMenuOptions,
                  !.navigation_stack = <<>>],
        now)

go_to_main_menu(s, now) ==
    update_activity(
        [s EXCEPT !.current_context = "main",
                  !.current_menu = "main",
                  !.conversation_step = 0,
                  !.context_data = EmptyDict,
                  !.available_options = MainMenuOptions,
                  !.navigation_stack = <<>>],
        now)

(***************************************************************************)
(* The inbound messages the runs draw from.  What the extractor and the    *)
(* str methods yield for each is computed once and looked up afterwards.   *)
(***************************************************************************)
Inputs ==
    { M_0, M_1, M_2, M_3, M_4, M_5, M_6, M_7, M_8, M_1_padded, M_99, M_sup2, M_empty,
      M_back, M_Back_padded, M_menu, M_MENU_padded, M_Start, M_help, M_Main, M_star,
      M_star_padded, M_quit, M_Exit_padded, M_stop, M_END, M_hi, M_Hello_padded,
      M_good_morning, M_xyz, M_natural, M_houses_under, M_office_abuja, M_exact_price,
      M_under_exact, M_under_currency, M_0_bedroom_flat }

ExtractedKeywords == [m \in Inputs |-> extract_search_keywords(m)]

Stripped == [m \in Inputs |-> strip(m)]

\* strip() without lower(): what C5 is compared against
StrippedOnly == [m \in Inputs |-> strip(m)]

LoweredStripped == [m \in Inputs |-> strip(lower(m))]

(***************************************************************************)
(* SessionManager: the handlers behind _process_contextual_message.  Each  *)
(* takes the session and the time of the call and yields what the handler  *)
(* did (Returned, Awaiting or Raised) with the session as it left it.      *)
(***************************************************************************)
Get(d, k, default) == IF Has(d, k) THEN d[k] ELSE default

\* str(i) for the indexes offered as options
Str(i) == IF i <= 9 THEN AsciiDigits[i + 1] ELSE "10+"

\* the display loop of _handle_search_results slices prop.get('title', ...)
\* and calls prop.get('type', '').title(): a NULL column raises there
FormatRaises(properties) ==
    \E i \in 1..Len(properties) :
        Listing[properties[i]].title = NULL \/ Listing[properties[i]].type = NULL

\* a _handle_search_results that enters search_results before it looks at
\* the result count: what C6 is compared against
_handle_search_results_entering_first(s, properties, search_description, natural_query, now) ==
    LET available_options ==
            [i \in 1..Len(properties) |-> Str(i)] \o <<"back", "*">>
        s1 == set_context([s EXCEPT !.last_search_results = properties],
                  "search_results",
                  [results |-> properties,
                   search_description |-> search_description,
                   natural_query |-> natural_query],
                  available_options, now)
    IN  IF properties = <<>>
        THEN Returned(s1, Response("no_results",
                 Text("no_properties_found", <<>>, "", search_description, <<>>, 0)))
        ELSE IF FormatRaises(properties) THEN Raised(s1)
        ELSE Returned(s1, Response("search_results",
                 Text("search_results", <<>>, "", search_description,
                      properties, Len(properties))))

_handle_search_results(s, properties, search_description, natural_query, now) ==
    IF properties = <<>>
    THEN Returned(s, Response("no_results",
             Text("no_properties_found", <<>>, "", search_description, <<>>, 0)))
    ELSE LET available_options ==
                 [i \in 1..Len(properties) |-> Str(i)] \o <<"back", "*">>
             s1 == set_context([s EXCEPT !.last_search_results = properties],
                       "search_results",
                       [results |-> properties,
                        search_description |-> search_description,
                        natural_query |-> natural_query],
                       available_options, now)
         IN  IF FormatRaises(properties) THEN Raised(s1)
             ELSE Returned(s1, Response("search_results",
                      Text("search_results", <<>>, "", search_description,
                           properties, Len(properties))))

NoProperty == 0   \* the empty dict that .get("property", {}) defaults to

\* format_property_message catches its own exceptions and falls back
format_property_message(property_data) ==
    IF property_data = NoProperty
    THEN Text("property_detail", <<>>, "", NoDescription, <<>>, 0)
    ELSE IF Listing[property_data].type = NULL
    THEN Text("property_detail_fallback", <<>>, "", NoDescription, <<property_data>>, 0)
    ELSE Text("property_detail", <<>>, "", NoDescription, <<property_data>>, 0)

_show_property_details(s, property_data, now) ==
    Returned(set_context(s, "property_detail", [property |-> property_data],
                         <<"1", "2", "back", "*">>, now),
             Response("property_detail", format_property_message(property_data)))

_handle_search_results_selection(s, message, now) ==
    LET results == Get(s.context_data, "results", <<>>)
        invalid == Returned(s, Response("error",
                       Text("unrecognized_results", message, "", NoDescription, <<>>, Len(results))))
    IN  IF isdigit(Stripped[message])
        THEN IF IntRaises(Stripped[message]) THEN Raised(s)
             ELSE IF 1 <= int(Stripped[message]) /\ int(Stripped[message]) <= Len(results)
                  THEN _show_property_details(s, results[int(Stripped[message])], now)
                  ELSE invalid
        ELSE invalid

\* a _handle_property_detail_options whose inspection stub returns the
\* session to the main menu: what C28 is compared against
_handle_property_detail_options_leaving(s, message) ==
    IF Stripped[message] = <<"1">> THEN Returned(s, Response("interest", Plain("interest_recorded")))
    ELSE IF Stripped[message] = <<"2">>
    THEN Returned(go_to_main_menu(s, s.last_activity),
                  Response("inspection", Plain("schedule_inspection")))
    ELSE Returned(s, Response("error",
             Text("unrecognized_detail", message, "", NoDescription, <<>>, 0)))

_handle_property_detail_options(s, message) ==
    IF Stripped[message] = <<"1">> THEN Returned(s, Response("interest", Plain("interest_recorded")))
    ELSE IF Stripped[message] = <<"2">> THEN Returned(s, Response("inspection", Plain("schedule_inspection")))
    ELSE Returned(s, Response("error",
             Text("unrecognized_detail", message, "", NoDescription, <<>>, 0)))

\* The four selection handlers share one shape: "0" leaves for the main menu,
\* a key of the handler's map starts a query, anything else is rejected.
PresetSelection(s, message, presets, invalid_tpl, now) ==
    IF Stripped[message] = <<"0">>
    THEN Returned(go_to_main_menu(s, now), Response("menu", Plain("sub_menu_zero")))
    ELSE IF Len(Stripped[message]) = 1 /\ Stripped[message][1] \in DOMAIN presets
    THEN Awaiting(s, presets[Stripped[message][1]].filters,
                  Description(presets[Stripped[message][1]].name), FALSE)
    ELSE Returned(s, Response("error",
             Text(invalid_tpl, message, "", NoDescription, <<>>, 0)))

Preset(filters, name) == [filters |-> filters, name |-> name]

type_map ==
    [k \in {"1", "2", "3", "4"} |->
        CASE k = "1" -> Preset([type |-> "APARTMENT"], "Property type: Apartments/Flats")
          [] k = "2" -> Preset([type |-> "HOUSE"], "Property type: Houses/Duplexes")
          [] k = "3" -> Preset([type |-> "OFFICE"], "Property type: Office Spaces")
          [] k = "4" -> Preset(EmptyDict, "Property type: All property types")]

bedroom_map ==
    [k \in {"1", "2", "3", "4", "5", "6"} |->
        CASE k = "1" -> Preset([bedrooms |-> 1], "Bedrooms: 1 Bedroom")
          [] k = "2" -> Preset([bedrooms |-> 2], "Bedrooms: 2 Bedrooms")
          [] k = "3" -> Preset([bedrooms |-> 3], "Bedrooms: 3 Bedrooms")
          [] k = "4" -> Preset([bedrooms |-> 4], "Bedrooms: 4 Bedrooms")
          [] k = "5" -> Preset([bedrooms |-> 5], "Bedrooms: 5+ Bedrooms")
          [] k = "6" -> Preset(EmptyDict, "Bedrooms: Any number of bedrooms")]

price_map ==
    [k \in {"1", "2", "3", "4", "5", "6"} |->
        CASE k = "1" -> Preset([max_price |-> 25 * Million], "Price range: Under 25M")
          [] k = "2" -> Preset([min_price |-> 25 * Million, max_price |-> 50 * Million], "Price range: 25M - 50M")
          [] k = "3" -> Preset([min_price |-> 50 * Million, max_price |-> 100 * Million], "Price range: 50M - 100M")
          [] k = "4" -> Preset([min_price |-> 100 * Million, max_price |-> 200 * Million], "Price range: 100M - 200M")
          [] k = "5" -> Preset([min_price |-> 200 * Million], "Price range: Above 200M")
          [] k = "6" -> Preset(EmptyDict, "Price range: Any price")]

location_map ==
    [k \in {"1", "2", "3", "4", "5", "6"} |->
        CASE k = "1" -> Preset([city |-> "Lagos"], "Location: Lagos")
          [] k = "2" -> Preset([city |-> "Abuja"], "Location: Abuja")
          [] k = "3" -> Preset([city |-> "Port Harcourt"], "Location: Port Harcourt")
          [] k = "4" -> Preset([city |-> "Kano"], "Location: Kano")
          [] k = "5" -> Preset([city |-> "Ibadan"], "Location: Ibadan")
          [] k = "6" -> Preset(EmptyDict, "Location: All locations")]

_handle_property_type_selection(s, message, now) ==
    PresetSelection(s, message, type_map, "unrecognized_select_1_4", now)

_handle_bedroom_selection(s, message, now) ==
    PresetSelection(s, message, bedroom_map, "unrecognized_select_1_6", now)

_handle_price_selection(s, message, now) ==
    PresetSelection(s, message, price_map, "unrecognized_select_1_6", now)

_handle_location_selection(s, message, now) ==
    PresetSelection(s, message, location_map, "unrecognized_select_1_6", now)

\* a _handle_sub_menu_selection that sends the bedrooms menu to the property
\* type handler: what C15 is compared against
_handle_sub_menu_selection_crossed(s, message, now) ==
    LET menu_type == Get(s.context_data, "menu_type", "")
    IN  CASE menu_type = "property_type" -> _handle_property_type_selection(s, message, now)
          [] menu_type = "bedrooms" -> _handle_property_type_selection(s, message, now)
          [] menu_type = "price" -> _handle_price_selection(s, message, now)
          [] menu_type = "location" -> _handle_location_selection(s, message, now)
          [] OTHER -> Returned(go_to_main_menu(s, now),
                               Response("menu", Plain("returning_to_main_menu")))

_handle_sub_menu_selection(s, message, now) ==
    LET menu_type == Get(s.context_data, "menu_type", "")
    IN  CASE menu_type = "property_type" -> _handle_property_type_selection(s, message, now)
          [] menu_type = "bedrooms" -> _handle_bedroom_selection(s, message, now)
          [] menu_type = "price" -> _handle_price_selection(s, message, now)
          [] menu_type = "location" -> _handle_location_selection(s, message, now)
          [] OTHER -> Returned(go_to_main_menu(s, now),
                               Response("menu", Plain("returning_to_main_menu")))

\* the sub-menu entered by each of the digits 5..8: its tag and its options
SubMenuOf(selection) ==
    CASE selection = <<"5">> ->
            [menu_type |-> "property_type", options |-> <<"1", "2", "3", "4", "0", "back", "*">>]
      [] selection = <<"6">> ->
            [menu_type |-> "bedrooms", options |-> <<"1", "2", "3", "4", "5", "6", "0", "back", "*">>]
      [] selection = <<"7">> ->
            [menu_type |-> "price", options |-> <<"1", "2", "3", "4", "5", "6", "0", "back", "*">>]
      [] selection = <<"8">> ->
            [menu_type |-> "location", options |-> <<"1", "2", "3", "4", "5", "6", "0", "back", "*">>]

\* quick searches with the cities of 3 and 4 exchanged: what C16 is compared
\* against
QuickSearchOf_cities_exchanged(selection) ==
    CASE selection = <<"1">> -> Preset(EmptyDict, "Show all available properties")
      [] selection = <<"2">> -> Preset([max_price |-> 50 * Million], "Properties under 50M")
      [] selection = <<"3">> -> Preset([city |-> "Abuja"], "Properties in Lagos")
      [] selection = <<"4">> -> Preset([city |-> "Lagos"], "Properties in Abuja")

\* the quick searches started by the digits 1..4
QuickSearchOf(selection) ==
    CASE selection = <<"1">> -> Preset(EmptyDict, "Show all available properties")
      [] selection = <<"2">> -> Preset([max_price |-> 50 * Million], "Properties under 50M")
      [] selection = <<"3">> -> Preset([city |-> "Lagos"], "Properties in Lagos")
      [] selection = <<"4">> -> Preset([city |-> "Abuja"], "Properties in Abuja")

\* a _handle_main_menu_enhanced that answers unrecognised input with the
\* plain main menu: what C18 is compared against
_handle_main_menu_enhanced_welcoming(s, message, now) ==
    LET selection == Stripped[message]
        filters == ExtractedKeywords[message]
    IN  IF selection \in {<<"1">>, <<"2">>, <<"3">>, <<"4">>}
        THEN Awaiting(s, QuickSearchOf(selection).filters,
                      Description(QuickSearchOf(selection).name), FALSE)
        ELSE IF selection \in MainDigits
        THEN Returned(set_context(s, "sub_menu",
                                  [menu_type |-> SubMenuOf(selection).menu_type],
                                  SubMenuOf(selection).options, now),
                      Response("menu",
                          Text("you_selected", <<>>, "",
                               Description(SubMenuOf(selection).menu_type), <<>>, 0)))
        ELSE IF filters # EmptyDict
        THEN Awaiting(s, filters, [label |-> "Natural search: ", query |-> message], TRUE)
        ELSE Returned(s, Response("menu", Plain("back_to_main_menu")))

\* a _handle_main_menu_enhanced that rejects whatever is no digit 1-8: what
\* C17 is compared against
_handle_main_menu_enhanced_digits_only(s, message, now) ==
    LET selection == Stripped[message]
    IN  IF selection \in {<<"1">>, <<"2">>, <<"3">>, <<"4">>}
        THEN Awaiting(s, QuickSearchOf(selection).filters,
                      Description(QuickSearchOf(selection).name), FALSE)
        ELSE IF selection \in MainDigits
        THEN Returned(set_context(s, "sub_menu",
                                  [menu_type |-> SubMenuOf(selection).menu_type],
                                  SubMenuOf(selection).options, now),
                      Response("menu",
                          Text("you_selected", <<>>, "",
                               Description(SubMenuOf(selection).menu_type), <<>>, 0)))
        ELSE Returned(s, Response("error",
                 Text("unrecognized_main", message, "", NoDescription, <<>>, 0)))

_handle_main_menu_enhanced(s, message, now) ==
    LET selection == Stripped[message]
        filters   == ExtractedKeywords[message]
    IN  IF selection \in {<<"1">>, <<"2">>, <<"3">>, <<"4">>}
        THEN Awaiting(s, QuickSearchOf(selection).filters,
                      Description(QuickSearchOf(selection).name), FALSE)
        ELSE IF selection \in MainDigits
        THEN Returned(set_context(s, "sub_menu",
                                  [menu_type |-> SubMenuOf(selection).menu_type],
                                  SubMenuOf(selection).options, now),
                      Response("menu",
                          Text("you_selected", <<>>, "",
                               Description(SubMenuOf(selection).menu_type), <<>>, 0)))
        ELSE IF filters # EmptyDict
        THEN Awaiting(s, filters, [label |-> "Natural search: ", query |-> message], TRUE)
        ELSE Returned(s, Response("error",
                 Text("unrecognized_main", message, "", NoDescription, <<>>, 0)))

\* a _get_context_response that runs the search again when it returns to a
\* result list: what C26 is compared against
_get_context_response_searching_again(s, now) ==
    CASE s.current_context = "main" ->
            Returned(s, Response("menu", Plain("back_to_main_menu")))
      [] s.current_context = "search_results" ->
            Awaiting(s, EmptyDict,
                Get(s.context_data, "search_description", Description("Previous search")),
                FALSE)
      [] s.current_context = "property_detail" ->
            _show_property_details(s, Get(s.context_data, "property", NoProperty), now)
      [] OTHER ->
            Returned(go_to_main_menu(s, now),
                     Response("menu", Plain("returning_to_main_menu")))

_get_context_response(s, now) ==
    CASE s.current_context = "main" ->
            Returned(s, Response("menu", Plain("back_to_main_menu")))
      [] s.current_context = "search_results" ->
            _handle_search_results(s, Get(s.context_data, "results", <<>>),
                Get(s.context_data, "search_description", Description("Previous search")),
                FALSE, now)
      [] s.current_context = "property_detail" ->
            _show_property_details(s, Get(s.context_data, "property", NoProperty), now)
      [] OTHER ->
            Returned(go_to_main_menu(s, now),
                     Response("menu", Plain("returning_to_main_menu")))

GreetingCount == 4

\* user_hash is hash(session.user_id), fixed for the life of the process
_process_contextual_message(s, message, user_hash, now) ==
    LET message_lower == LoweredStripped[message]
    IN  IF message_lower \in MenuCommands
        THEN Returned(go_to_main_menu(s, now),
                 Response("menu", Text("welcome_back", <<>>, s.name, NoDescription, <<>>, 0)))
        ELSE IF message_lower = BackCommand
        THEN IF go_back(s, now)[1]
             THEN _get_context_response(go_back(s, now)[2], now)
             ELSE Returned(go_to_main_menu(s, now),
                           Response("menu", Plain("no_previous_step")))
        ELSE IF message_lower \in QuitCommands
        THEN [Returned(s, Response("end", Plain("session_ended"))) EXCEPT !.ended = TRUE]
        ELSE IF message_lower \in GreetingWords
        THEN Returned(go_to_main_menu(s, now),
                 Response("greeting",
                     Text("greeting", <<>>, s.name, NoDescription, <<>>, user_hash % GreetingCount)))
        ELSE CASE s.current_context = "main" -> _handle_main_menu_enhanced(s, message, now)
               [] s.current_context = "search_results" -> _handle_search_results_selection(s, message, now)
               [] s.current_context = "property_detail" -> _handle_property_detail_options(s, message)
               [] s.current_context = "sub_menu" -> _handle_sub_menu_selection(s, message, now)
               [] OTHER -> Returned(go_to_main_menu(s, now),
                                    Response("menu", Plain("returning_to_main_menu")))

\* handle_user_message run from its first line to its last with nothing in
\* between: the session it leaves, given the session get_or_create_session
\* returned and what the query sees
handle_user_message(s, message, user_hash, table, db_raises, now) ==
    LET s1  == add_to_history(s, "user_message", Verbatim(message), now)
        out == _process_contextual_message(s1, message, user_hash, now)
        res == IF out.kind = "await"
               THEN _handle_search_results(out.session,
                        search_properties(out.query.filters, SearchLimit, table, db_raises),
                        out.query.desc, out.query.natural, now)
               ELSE out
    IN  IF res.kind = "reply"
        THEN add_to_history(res.session, "bot_response", res.response.message, now)
        ELSE res.session

(***************************************************************************)
(* The running process.                                                    *)
(*   clock     the time, in hours                                          *)
(*   sessions  SessionManager.sessions: user_id -> session object (0: none)*)
(*   heap      the UserSession objects; a handler keeps the object it got  *)
(*             from get_or_create_session even after the store drops it    *)
(*   pending   the handlers suspended in the await of search_properties    *)
(*   nreq      requests received so far: messages and admin calls          *)
(*   ev, prev  what the last step and the one before it did (observations, *)
(*             read by no handler)                                         *)
(*   scn       the inputs this run draws from, fixed at start              *)
(***************************************************************************)
Users == {"2348000001", "2348000002"}

MaxInflight == 2

MaxClock == 3

NavDepth == 4

CmdDepth == 3

ErrDepth == 3

RaceDepth == 2

IsoDepth == 4

AdmDepth == 2

SwpDepth == 3

EndDepth == 4

SelDepth == 3

SubDepth == 2

TxtDepth == 2

LimDepth == 3

HistDepth == 11

RedrawDepth == 4

GreetDepth == 4

GrowDepth == 6

BedsDepth == 2

SessionTimeout == 2   \* timedelta(hours=2)

ObjIds == 1..(Cardinality(Users) + MaxInflight + 1)

Blank == UserSession("", "", 0)

Scenario(name, users, names, msgs, tables, raises, depth, inflight, maxclock, admin, hash) ==
    [name |-> name, users |-> users, names |-> names, msgs |-> msgs, tables |-> tables,
     raises |-> raises, depth |-> depth, inflight |-> inflight, maxclock |-> maxclock,
     admin |-> admin, hash |-> hash]

Hash0 == [u \in Users |-> IF u = "2348000001" THEN 6 ELSE 9]

Scenarios ==
    { Scenario("nav", {"2348000001"}, {"Ann"},
               {M_1, M_5, M_back, M_natural},
               {{}, {1, 5}}, {FALSE, TRUE}, NavDepth, 1, 0, FALSE, Hash0),
      Scenario("cmd", {"2348000001"}, {"Ann"},
               {M_1, M_5, M_menu, M_MENU_padded, M_Start, M_help, M_Main, M_star, M_star_padded},
               {{1, 5}}, {FALSE}, CmdDepth, 1, 0, FALSE, Hash0),
      Scenario("err", {"2348000001"}, {"Ann", ""},
               {M_1, M_sup2, M_back},
               {{1, 8}, {1}}, {FALSE, TRUE}, ErrDepth, 1, 0, FALSE, Hash0),
      Scenario("race", {"2348000001"}, {"Ann"},
               {M_1, M_back},
               {{1, 5}, {4}}, {FALSE}, RaceDepth, MaxInflight, 0, FALSE, Hash0),
      Scenario("iso", Users, {"Ann"},
               {M_1, M_5},
               {{1, 5}}, {FALSE}, IsoDepth, MaxInflight, 0, FALSE, Hash0),
      Scenario("adm", Users, {"Ann"},
               {M_1, M_quit},
               {{1, 5}}, {FALSE}, AdmDepth, MaxInflight, MaxClock, TRUE, Hash0),
      Scenario("swp", Users, {"Ann"},
               {M_hi},
               {{1, 5}}, {FALSE}, SwpDepth, 1, MaxClock, TRUE, Hash0),
      Scenario("end", {"2348000001"}, {"Ann"},
               {M_1, M_5, M_quit, M_Exit_padded, M_stop, M_END},
               {{1, 5}}, {FALSE}, EndDepth, MaxInflight, 0, FALSE, Hash0),
      Scenario("sel", {"2348000001"}, {"Ann"},
               {M_1, M_2, M_1_padded, M_0, M_3, M_99, M_xyz, M_sup2},
               {{1, 5}}, {FALSE}, SelDepth, 1, 0, FALSE, Hash0),
      Scenario("sub", {"2348000001"}, {"Ann"},
               {M_5, M_6, M_7, M_8, M_0, M_1, M_1_padded, M_4, M_xyz, M_sup2},
               {{1, 5}, {}}, {FALSE}, SubDepth, 1, 0, FALSE, Hash0),
      Scenario("txt", {"2348000001"}, {"Ann"},
               {M_natural, M_houses_under, M_office_abuja, M_exact_price, M_under_exact,
                M_under_currency, M_0_bedroom_flat,
                M_xyz, M_0, M_99, M_empty},
               {{1, 2, 3, 5}}, {FALSE}, TxtDepth, 1, 0, FALSE, Hash0),
      Scenario("lim", {"2348000001"}, {"Ann"},
               {M_1, M_back},
               {{1, 2, 3, 4, 5, 6}}, {FALSE}, LimDepth, 1, 0, FALSE, Hash0),
      Scenario("hist", {"2348000001"}, {"Ann"},
               {M_xyz, M_0},
               {{}}, {FALSE}, HistDepth, 1, 0, FALSE, Hash0),
      Scenario("redraw", {"2348000001"}, {"Ann"},
               {M_1, M_back},
               {{1, 5}, {4}}, {FALSE}, RedrawDepth, MaxInflight, 0, FALSE, Hash0),
      Scenario("greet", {"2348000001"}, {"Ann"},
               {M_1, M_5, M_hi, M_Hello_padded, M_good_morning},
               {{1, 5}}, {FALSE}, GreetDepth, 1, 0, FALSE, Hash0),
      Scenario("grow", {"2348000001"}, {"Ann"},
               {M_1, M_back},
               {{1, 5}}, {FALSE}, GrowDepth, 1, 0, FALSE, Hash0),
      Scenario("beds", {"2348000001"}, {"Ann"},
               {M_6, M_5, M_4},
               {{1, 2, 6}}, {FALSE}, BedsDepth, 1, 0, FALSE, Hash0) }

NoPeers == <<>>

\* op       "handled": a handler ran to its end; "suspended": it reached the await
\* resumed  the step resumed a suspended handler (FALSE: it received a message)
\* start    the handler's session as get_or_create_session returned it
\* sent     that session when the handler reached its await or its end
\* mid      that session just before this step
\* after    that session just after this step
\* solo     nothing touched that session between the handler's await and
\*          its resumption (TRUE for a handler that never awaited)
\* type     the type of the response ("apology" when the handler raised)
\* reply    the text _process_message_content returned
Event(op, resumed, user, message, start, sent, mid, after, type, reply, raised, db_raised, table, properties, query, created, evicted, peers, result) ==
    [op |-> op, resumed |-> resumed, user |-> user, message |-> message, start |-> start, sent |-> sent,
     mid |-> mid, after |-> after, solo |-> ~resumed \/ mid = sent,
     type |-> type, reply |-> reply, raised |-> raised,
     db_raised |-> db_raised, table |-> table, properties |-> properties, query |-> query,
     active_sessions |-> 0, found |-> Blank,
     created |-> created, evicted |-> evicted, peers |-> peers, result |-> result]

Quiet(op, user, evicted, result) ==
    Event(op, FALSE, user, <<>>, Blank, Blank, Blank, Blank, "", Plain(""), FALSE, FALSE, {}, <<>>,
          NoQuery, FALSE, evicted, NoPeers, result)

\* the reply _process_message_content returns when handle_user_message raised
Apology == Plain("apology")

\* a _process_message_content without its except clause: what C8 is compared
\* against
_process_message_content_uncaught(out) == out.response.message

\* _process_message_content: the text handed to the caller for a handler
\* that returned or raised
_process_message_content(out) ==
    IF out.kind = "raise" THEN Apology ELSE out.response.message

\* the commands each rejection, listing and apology text tells the user about
CommandsNamed(tpl) ==
    CASE tpl \in {"unrecognized_main", "unrecognized_results", "unrecognized_detail",
                  "unrecognized_select_1_4", "unrecognized_select_1_6",
                  "search_results", "property_detail", "interest_recorded",
                  "schedule_inspection"} -> {"menu", "back"}
      [] tpl = "apology" -> {"menu"}
      [] OTHER -> {}

\* the numbers each rejection text asks the user to choose from
RangeNamed(text) ==
    CASE text.tpl = "unrecognized_main" -> 1..8
      [] text.tpl = "unrecognized_results" -> 1..text.count
      [] text.tpl = "unrecognized_detail" -> 1..2
      [] text.tpl = "unrecognized_select_1_4" -> 0..4
      [] text.tpl = "unrecognized_select_1_6" -> 0..6
      [] OTHER -> {}

Referenced(store, waiting) ==
    {store[u] : u \in Users} \cup {waiting[i].obj : i \in 1..Len(waiting)}

\* objects nobody refers to any more are forgotten
Collect(h, store, waiting) ==
    [o \in ObjIds |-> IF o \in Referenced(store, waiting) THEN h[o] ELSE Blank]

Remove(q, i) == SubSeq(q, 1, i - 1) \o SubSeq(q, i + 1, Len(q))

\* _cleanup_expired_sessions: the users whose sessions it deletes
\* a sweep that also takes the sessions idle for exactly the timeout: what
\* C36 is compared against
Expired_at_the_timeout(store, h, now) ==
    {u \in Users : store[u] # 0 /\ now - h[store[u]].last_activity >= SessionTimeout}

Expired(store, h, now) ==
    {u \in Users : store[u] # 0 /\ now - h[store[u]].last_activity > SessionTimeout}

\* a sweep that stops after the first expired session it deletes: what C11
\* is compared against
_cleanup_expired_sessions_first_only(store, h, now) ==
    [u \in Users |->
        IF u \in Expired(store, h, now) /\ u = (CHOOSE v \in Expired(store, h, now) : TRUE)
        THEN 0 ELSE store[u]]

\* a sweep that removes nothing: what C37 is compared against
_cleanup_expired_sessions_never(store, h, now) == store

_cleanup_expired_sessions(store, h, now) ==
    [u \in Users |-> IF u \in Expired(store, h, now) THEN 0 ELSE store[u]]

\* get_session: <<returned object (0: None), store>>
get_session(store, h, user_id, now) ==
    <<_cleanup_expired_sessions(store, h, now)[user_id], _cleanup_expired_sessions(store, h, now)>>

\* an end_session that reports success and deletes nothing: what C12 is
\* compared against
end_session_keeping(store, user_id) ==
    IF store[user_id] # 0 THEN <<TRUE, store>> ELSE <<FALSE, store>>

\* end_session: <<returned value, store>>
\* an end_session that empties the whole store: what C27 is compared against
end_session_of_everyone(store, user_id) ==
    IF store[user_id] # 0 THEN <<TRUE, [u \in Users |-> 0]>> ELSE <<FALSE, store>>

end_session(store, user_id) ==
    IF store[user_id] # 0 THEN <<TRUE, [store EXCEPT ![user_id] = 0]>> ELSE <<FALSE, store>>

\* a get_or_create_session that constructs a session on every call: what C13
\* is compared against
get_or_create_session_always_new(store, h, waiting, user_id, user_name, now) ==
    LET obj == CHOOSE o \in ObjIds \ Referenced(store, waiting) :
                   \A p \in ObjIds \ Referenced(store, waiting) : o <= p
    IN  [store |-> [store EXCEPT ![user_id] = obj], obj |-> obj, created |-> TRUE,
         session |-> update_activity(UserSession(user_id, user_name, now), now)]

\* a get_or_create_session that hands every new user the same object: what
\* C10 is compared against
get_or_create_session_shared(store, h, waiting, user_id, user_name, now) ==
    IF store[user_id] = 0
    THEN [store |-> [store EXCEPT ![user_id] = 1], obj |-> 1, created |-> TRUE,
          session |-> update_activity(UserSession(user_id, user_name, now), now)]
    ELSE LET cur == h[store[user_id]]
         IN  [store |-> store, obj |-> store[user_id], created |-> FALSE,
              session |-> update_activity(
                  IF user_name # "" /\ cur.name # user_name
                  THEN [cur EXCEPT !.name = user_name] ELSE cur, now)]

\* get_or_create_session: the store, the object it returns and that object's
\* state, given the store after the sweep
get_or_create_session(store, h, waiting, user_id, user_name, now) ==
    IF store[user_id] = 0
    THEN LET obj == CHOOSE o \in ObjIds \ Referenced(store, waiting) :
                        \A p \in ObjIds \ Referenced(store, waiting) : o <= p
         IN  [store |-> [store EXCEPT ![user_id] = obj], obj |-> obj, created |-> TRUE,
              session |-> update_activity(UserSession(user_id, user_name, now), now)]
    ELSE LET cur == h[store[user_id]]
         IN  [store |-> store, obj |-> store[user_id], created |-> FALSE,
              session |-> update_activity(
                  IF user_name # "" /\ cur.name # user_name
                  THEN [cur EXCEPT !.name = user_name] ELSE cur, now)]

Init ==
    /\ scn \in Scenarios
    /\ clock = 0
    /\ sessions = [u \in Users |-> 0]
    /\ heap = [o \in ObjIds |-> Blank]
    /\ pending = <<>>
    /\ nreq = 0
    /\ ev = Quiet("init", "", {}, FALSE)
    /\ prev = Quiet("init", "", {}, FALSE)

\* An inbound text message: handle_text_message -> _process_message_content ->
\* handle_user_message, up to its return or to the await of the query.
Receive(user_id, user_name, message) ==
    LET swept == _cleanup_expired_sessions(sessions, heap, clock)
        got   == get_or_create_session(swept, heap, pending, user_id, user_name, clock)
        s1    == add_to_history(got.session, "user_message", Verbatim(message), clock)
        out   == _process_contextual_message(s1, message, scn.hash[user_id], clock)
        store == IF out.ended THEN end_session(got.store, user_id)[2] ELSE got.store
        final == IF out.kind = "reply"
                 THEN add_to_history(out.session, "bot_response", out.response.message, clock)
                 ELSE out.session
        wait  == IF out.kind = "await"
                 THEN Append(pending, [user |-> user_id, obj |-> got.obj, message |-> message,
                                       query |-> out.query, start |-> got.session,
                                       sent |-> final, peers |-> NoPeers])
                 ELSE pending
    IN  /\ nreq < scn.depth
        /\ Len(pending) < scn.inflight
        /\ nreq' = nreq + 1
        /\ sessions' = store
        /\ pending' = wait
        /\ heap' = Collect([heap EXCEPT ![got.obj] = final], store, wait)
        /\ ev' = [Event(IF out.kind = "await" THEN "suspended" ELSE "handled", FALSE,
                       user_id, message, got.session, final, got.session, final,
                       CASE out.kind = "reply" -> out.response.type
                         [] out.kind = "raise" -> "apology"
                         [] OTHER -> "",
                       IF out.kind = "await" THEN Plain("") ELSE _process_message_content(out),
                       out.kind = "raise", FALSE, {}, <<>>,
                       IF out.kind = "await" THEN out.query ELSE NoQuery, got.created,
                       Expired(sessions, heap, clock), NoPeers, out.ended)
                     EXCEPT !.found = IF sessions[user_id] # 0
                                     THEN heap[sessions[user_id]] ELSE Blank]
        /\ prev' = ev
        /\ UNCHANGED <<scn, clock>>

\* The query of suspended handler i completes: search_properties returns (an
\* exception inside it included) and the handler runs to its end.
\* a resumed handler that stores its session object again when it is done:
\* what C34 is compared against
QueryReturn_storing_again(i, table, db_raises) ==
    LET h          == pending[i]
        before     == heap[h.obj]
        properties == search_properties(h.query.filters, SearchLimit, table, db_raises)
        out        == _handle_search_results(before, properties, h.query.desc,
                                             h.query.natural, clock)
        final      == IF out.kind = "reply"
                      THEN add_to_history(out.session, "bot_response", out.response.message, clock)
                      ELSE out.session
        me         == [message |-> h.message, table |-> table, db_raises |-> db_raises,
                       properties |-> properties, start |-> h.start, sent |-> h.sent,
                       mid |-> before, final |-> final]
        others     == Remove(pending, i)
        wait       == [j \in 1..Len(others) |->
                          IF others[j].obj = h.obj
                          THEN [others[j] EXCEPT !.peers = Append(@, me)]
                          ELSE others[j]]
    IN  /\ pending' = wait
        /\ heap' = Collect([heap EXCEPT ![h.obj] = final],
                         [sessions EXCEPT ![h.user] = h.obj], wait)
        /\ ev' = Event("handled", TRUE, h.user, h.message, h.start, h.sent, before, final,
                       IF out.kind = "reply" THEN out.response.type ELSE "apology",
                       _process_message_content(out),
                       out.kind = "raise", db_raises, table, properties, h.query, FALSE, {},
                       h.peers, FALSE)
        /\ prev' = ev
        /\ sessions' = [sessions EXCEPT ![h.user] = h.obj]
        /\ UNCHANGED <<scn, clock, nreq>>

QueryReturn(i, table, db_raises) ==
    LET h          == pending[i]
        before     == heap[h.obj]
        properties == search_properties(h.query.filters, SearchLimit, table, db_raises)
        out        == _handle_search_results(before, properties, h.query.desc,
                                             h.query.natural, clock)
        final      == IF out.kind = "reply"
                      THEN add_to_history(out.session, "bot_response", out.response.message, clock)
                      ELSE out.session
        me         == [message |-> h.message, table |-> table, db_raises |-> db_raises,
                       properties |-> properties, start |-> h.start, sent |-> h.sent,
                       mid |-> before, final |-> final]
        others     == Remove(pending, i)
        wait       == [j \in 1..Len(others) |->
                          IF others[j].obj = h.obj
                          THEN [others[j] EXCEPT !.peers = Append(@, me)]
                          ELSE others[j]]
    IN  /\ pending' = wait
        /\ heap' = Collect([heap EXCEPT ![h.obj] = final], sessions, wait)
        /\ ev' = Event("handled", TRUE, h.user, h.message, h.start, h.sent, before, final,
                       IF out.kind = "reply" THEN out.response.type ELSE "apology",
                       _process_message_content(out),
                       out.kind = "raise", db_raises, table, properties, h.query, FALSE, {},
                       h.peers, FALSE)
        /\ prev' = ev
        /\ UNCHANGED <<scn, clock, sessions, nreq>>

\* an hour passes
Tick ==
    /\ clock < scn.maxclock
    /\ clock' = clock + 1
    /\ ev' = Quiet("tick", "", {}, FALSE)
    /\ prev' = ev
    /\ UNCHANGED <<scn, sessions, heap, pending, nreq>>

\* GET /webhook/sessions: SessionManager.get_session_stats sweeps first
\* get_session_stats: the count it reports and the store it leaves
get_session_stats(store, h, now) ==
    [active_sessions |->
         Cardinality({u \in Users : _cleanup_expired_sessions(store, h, now)[u] # 0}),
     sessions |-> _cleanup_expired_sessions(store, h, now)]

GetSessionStats ==
    /\ scn.admin
    /\ nreq < scn.depth
    /\ nreq' = nreq + 1
    /\ sessions' = get_session_stats(sessions, heap, clock).sessions
    /\ heap' = Collect(heap, sessions', pending)
    /\ ev' = [Quiet("stats", "", Expired(sessions, heap, clock), FALSE)
                 EXCEPT !.active_sessions = get_session_stats(sessions, heap, clock).active_sessions]
    /\ prev' = ev
    /\ UNCHANGED <<scn, clock, pending>>

\* POST /webhook/end-session
EndUserSession(user_id) ==
    /\ scn.admin
    /\ nreq < scn.depth
    /\ nreq' = nreq + 1
    /\ sessions' = end_session(sessions, user_id)[2]
    /\ heap' = Collect(heap, sessions', pending)
    /\ ev' = Quiet("end_session", user_id, {}, end_session(sessions, user_id)[1])
    /\ prev' = ev
    /\ UNCHANGED <<scn, clock, pending>>

Next ==
    \/ \E u \in scn.users, n \in scn.names, m \in scn.msgs : Receive(u, n, m)
    \/ \E i \in 1..Len(pending), t \in scn.tables, r \in scn.raises : QueryReturn(i, t, r)
    \/ Tick
    \/ GetSessionStats
    \/ \E u \in scn.users : EndUserSession(u)

Spec == Init /\ [][Next]_vars

(***************************************************************************)
(* Properties.                                                             *)
(***************************************************************************)
Handled == ev.op = "handled"

\* inputs written out, so that a property does not lean on the code's own
\* normalisation of the message
BackInputs == {M_back, M_Back_padded}

MenuInputs == {M_menu, M_MENU_padded, M_Start, M_help, M_Main, M_star, M_star_padded}

SelectionInputs == {M_1, M_2, M_3, M_4, M_5, M_1_padded}

\* the navigation state of a session
NavOf(s) ==
    [context |-> s.current_context, data |-> s.context_data,
     options |-> s.available_options, stack |-> s.navigation_stack]

\* the fields a pushed frame saves
Restored(a, b) ==
    /\ a.current_context = b.current_context
    /\ a.current_menu = b.current_menu
    /\ a.conversation_step = b.conversation_step
    /\ a.context_data = b.context_data
    /\ a.available_options = b.available_options

\* the last two steps are two messages of one user handled one after the other
Consecutive ==
    /\ Handled /\ prev.op = "handled"
    /\ prev.user = ev.user
    /\ prev.solo
    /\ pending = <<>>

\* C1: in search_results, a valid selection followed by "back" restores
\* current_context, current_menu, conversation_step, context_data (search
\* description and natural_query flag included) and available_options to the
\* values they had before the selection.
C1_SelectThenBackRestores ==
    ( /\ Consecutive
      /\ prev.start.current_context = "search_results"
      /\ prev.message \in SelectionInputs
      /\ prev.type = "property_detail"
      /\ ev.message \in BackInputs )
    => Restored(ev.after, prev.start)

\* C2: "back" with a non-empty navigation_stack leaves the stack equal to the
\* previous stack without its top frame.
C2_BackPopsOneFrame ==
    ( /\ Handled
      /\ ev.message \in BackInputs
      /\ ev.start.navigation_stack # <<>> )
    => ev.after.navigation_stack =
          SubSeq(ev.start.navigation_stack, 1, Len(ev.start.navigation_stack) - 1)

\* C3: when search_results was entered from a sub_menu, "back" leaves the
\* session in sub_menu with the menu_type and the options the sub_menu had
\* before the search.
C3_BackReturnsToSubMenu ==
    ( /\ Consecutive
      /\ prev.start.current_context = "sub_menu"
      /\ prev.type = "search_results"
      /\ ev.message \in BackInputs )
    => /\ ev.after.current_context = "sub_menu"
       /\ ev.after.context_data = prev.start.context_data
       /\ ev.after.available_options = prev.start.available_options

\* C4: "back" with an empty navigation_stack raises nothing and leaves the
\* session in main with an empty stack; the reply has type menu and shows the
\* main menu.
C4_BackOnEmptyStackGoesToMain ==
    ( /\ Handled
      /\ ev.message \in BackInputs
      /\ ev.start.navigation_stack = <<>> )
    => /\ ~ev.raised
       /\ ev.after.current_context = "main"
       /\ ev.after.navigation_stack = <<>>
       /\ ev.type = "menu"
       /\ ev.reply.tpl \in MainMenuTemplates

C4_Witness ==
    /\ Handled
    /\ ev.message \in BackInputs
    /\ ev.start.navigation_stack = <<>>
    /\ ev.start.current_context = "search_results"
    /\ ev.after.current_context = "main"

\* C5: in every state, "menu", "start", "help", "main" or "*", in any letter
\* case and with whitespace around it, yields main, an empty stack, empty
\* context_data and a reply of type menu, whatever the input would mean in
\* the state the session was in.
C5_MenuCommandResets ==
    (Handled /\ ev.message \in MenuInputs)
    => /\ ev.after.current_context = "main"
       /\ ev.after.navigation_stack = <<>>
       /\ ev.after.context_data = EmptyDict
       /\ ev.type = "menu"

C5_Witness ==
    /\ Handled
    /\ ev.message = M_MENU_padded
    /\ ev.start.current_context = "property_detail"
    /\ ev.start.navigation_stack # <<>>
    /\ ev.after.current_context = "main"

\* C6: a query that returns no listing is answered with no_results and the
\* handler changes nothing of current_context, context_data,
\* available_options and navigation_stack: they are as before the message.
C6_NoResultsChangesNothing ==
    (Handled /\ ev.type = "no_results")
    => /\ NavOf(ev.after) = NavOf(ev.mid)
       /\ NavOf(ev.sent) = NavOf(ev.start)
       /\ ev.solo => NavOf(ev.after) = NavOf(ev.start)

C6_Witness ==
    /\ Handled
    /\ ev.type = "no_results"
    /\ ~ev.db_raised
    /\ ev.start.current_context = "sub_menu"
    /\ ev.solo
    /\ ev.after.current_context = "sub_menu"

\* C7: when the gateway call raises, the reply is the generic apology and the
\* navigation state is the one before the message.
C7_GatewayFailureApologises ==
    (Handled /\ ev.db_raised)
    => /\ ev.type = "apology"
       /\ ev.reply = Apology
       /\ NavOf(ev.after) = NavOf(ev.mid)

RacePair ==
    /\ Handled
    /\ Len(ev.peers) = 1
    /\ ev.start = ev.peers[1].sent \/ ev.peers[1].start = ev.sent
    /\ ev.peers[1].mid = (IF ev.start = ev.peers[1].sent THEN ev.sent ELSE ev.peers[1].sent)
    /\ ev.mid = ev.peers[1].final

\* the session the first of the two handlers started from
RaceStart == IF ev.start = ev.peers[1].sent THEN ev.peers[1].start ELSE ev.start

\* the sessions the two serial orders of the pair leave, each message with
\* the listings its query saw
SerialOutcomes ==
    LET a == ev.peers[1]
        h == scn.hash[ev.user]
        One(m, t, r, s) == handle_user_message(s, m, h, t, r, clock)
    IN  { One(ev.message, ev.table, ev.db_raised,
              One(a.message, a.table, a.db_raises, RaceStart)),
          One(a.message, a.table, a.db_raises,
              One(ev.message, ev.table, ev.db_raised, RaceStart)) }

\* C9: two "1" messages of one user handled concurrently from main, both
\* queries returning listings, leave the session in search_results with one
\* search_results frame on the stack; either serial order ends in
\* property_detail, so no serial order produces the state the race leaves.
C9_ConcurrentSearchesRace ==
    ( /\ RacePair
      /\ ev.message = M_1 /\ ev.peers[1].message = M_1
      /\ RaceStart.current_context = "main"
      /\ ev.properties # <<>> /\ ev.peers[1].properties # <<>> )
    => /\ ev.after.current_context = "search_results"
       /\ Len(ev.after.navigation_stack) = 1
       /\ ev.after.navigation_stack[1].context = "search_results"
       /\ \A s \in SerialOutcomes :
             /\ s.current_context = "property_detail"
             /\ NavOf(s) # NavOf(ev.after)

C9_Witness ==
    /\ RacePair
    /\ ev.message = M_1 /\ ev.peers[1].message = M_1
    /\ RaceStart.current_context = "main"
    /\ ev.properties # <<>> /\ ev.peers[1].properties # <<>>
    /\ ev.after.current_context = "search_results"
    /\ ev.after.navigation_stack # <<>>

\* what C10 says of a session stays as it is
Isolated(s) ==
    [context |-> s.current_context, data |-> s.context_data,
     options |-> s.available_options, stack |-> s.navigation_stack,
     history |-> s.conversation_history]

\* the session the store holds for a user
SessionOf(store, h, u) == IF store[u] = 0 THEN Blank ELSE h[store[u]]

\* the session objects the suspended handlers of a user hold
HeldBy(u) == {pending[i].obj : i \in {j \in 1..Len(pending) : pending[j].user = u}}

\* C10: a step of a handler of user A (reception or resumption, whatever else
\* is in flight) leaves the session of every other user as it is - in the
\* store and in the hands of that user's suspended handlers - unless that
\* session had expired and the step evicted it.
C10_SessionsAreIndependent ==
    [][ ev'.op \in {"handled", "suspended"}
        => \A b \in Users \ {ev'.user} :
              /\ \/ /\ sessions'[b] = sessions[b]
                    /\ Isolated(SessionOf(sessions', heap', b))
                           = Isolated(SessionOf(sessions, heap, b))
                 \/ /\ b \in Expired(sessions, heap, clock)
                    /\ sessions'[b] = 0
              /\ \A o \in HeldBy(b) : Isolated(heap'[o]) = Isolated(heap[o]) ]_vars

C10_Witness ==
    /\ Handled
    /\ \E b \in Users \ {ev.user} :
          /\ sessions[b] # 0
          /\ heap[sessions[b]].current_context = "search_results"
          /\ heap[sessions[b]].conversation_history # <<>>
    /\ ev.after.current_context = "sub_menu"
    /\ Len(pending) > 0

\* the users with a session in the store
Tracked(store) == {u \in Users : store[u] # 0}

\* the sessions last active more than two hours ago
Stale == {u \in Tracked(sessions) : clock - heap[sessions[u]].last_activity > 2}

\* the step just taken began with a session lookup: a message was received
\* (get_or_create_session) or the statistics were read (get_session_stats)
LookupStep == nreq' = nreq + 1 /\ ev'.op \in {"handled", "suspended", "stats"}

\* C11 as stated: after a lookup call made while some session is more than
\* two hours idle, every such session is absent from the store and the store
\* holds exactly one session less than before.
C11_SweepRemovesExactlyOne ==
    [][ (LookupStep /\ Stale # {})
        => /\ \A u \in Stale : sessions'[u] = 0
           /\ Cardinality(Tracked(sessions')) = Cardinality(Tracked(sessions)) - 1 ]_vars

\* C11 amended: a lookup call removes every session more than two hours idle
\* and no other; the count of sessions falls by the number of those sessions
\* and rises by one when get_or_create_session creates the caller's session
\* (the caller may be a user whose session was just removed: the session it
\* gets is a new one).  A "quit" handled in the same step then ends the
\* caller's session.  get_session, which nothing calls, sweeps the same way.
C11_SweepRemovesEveryStaleSession ==
    [][ LookupStep
        => LET caller == IF ev'.op = "stats" THEN {} ELSE {ev'.user}
               quit   == IF ev'.op = "handled" /\ ev'.result THEN caller ELSE {}
               made   == IF ev'.op # "stats" /\ ev'.created THEN 1 ELSE 0
           IN  /\ \A u \in Stale \ caller : sessions'[u] = 0
               /\ \A u \in Stale \cap caller :
                     /\ ev'.created
                     /\ ev'.start = UserSession(u, ev'.start.name, clock)
                     /\ sessions'[u] = 0 <=> u \in quit
               /\ \A u \in Tracked(sessions) \ (Stale \cup quit) : sessions'[u] = sessions[u]
               /\ ev'.evicted = Stale
               /\ Cardinality(Tracked(sessions')) =
                     Cardinality(Tracked(sessions)) - Cardinality(Stale) + made
                         - Cardinality(quit)
               /\ \A u \in Users :
                     /\ Tracked(get_session(sessions, heap, u, clock)[2])
                            = Tracked(sessions) \ Stale
                     /\ get_session(sessions, heap, u, clock)[1]
                            = (IF u \in Stale THEN 0 ELSE sessions[u]) ]_vars

\* a message of a user whose session had expired, received while the other
\* user's session had expired too: both are swept and one is created
C11_Witness ==
    /\ Handled
    /\ ev.evicted = Users
    /\ ev.created
    /\ Tracked(sessions) = {ev.user}

QuitInputs == {M_quit, M_Exit_padded, M_stop, M_END}

\* the step just taken received a message (it resumed nothing)
Received == ev.op \in {"handled", "suspended"} /\ ~ev.resumed

\* C12: in every state "quit", "exit", "stop" or "end", in any case and
\* trimmed, is answered with a reply of type end and leaves the store without
\* the user's session; a message received from a user the store does not hold
\* - so the next message after the quit - is handled in a newly created
\* session: main, empty navigation_stack, no history.
C12_QuitEndsTheSession ==
    /\ [](( Handled /\ ev.message \in QuitInputs )
          => /\ ev.type = "end"
             /\ ~ev.raised
             /\ ev.result
             /\ sessions[ev.user] = 0)
    /\ [][ (Received' /\ sessions[ev'.user] = 0)
           => /\ ev'.created
              /\ ev'.start = UserSession(ev'.user, ev'.start.name, clock)
              /\ ev'.start.current_context = "main"
              /\ ev'.start.navigation_stack = <<>>
              /\ ev'.start.conversation_history = <<>> ]_vars

C12_Witness ==
    /\ prev.op = "handled"
    /\ prev.message = M_Exit_padded
    /\ prev.type = "end"
    /\ prev.start.current_context = "property_detail"
    /\ prev.start.conversation_history # <<>>
    /\ Received
    /\ ev.user = prev.user
    /\ ev.created
    /\ ev.start.conversation_history = <<>>

\* two sessions that differ at most in the sender name and the activity stamp
SameConversation(a, b) ==
    [a EXCEPT !.name = "", !.last_activity = 0] = [b EXCEPT !.name = "", !.last_activity = 0]

\* C13: a message creates a session exactly when its sender has no live
\* session in the store (none, or one the sweep of that call removes), and
\* nothing else creates one; a message of a tracked user is handled on the
\* session object the store holds, with the conversation it holds; without
\* quits and expiries the store then holds the old users and the sender.
\* Every stored session is keyed by its own user_id and no two users share
\* a session object.
C13_OneSessionPerUser ==
    /\ [](\A u \in Tracked(sessions) :
             /\ heap[sessions[u]].user_id = u
             /\ \A v \in Tracked(sessions) \ {u} : sessions[v] # sessions[u])
    /\ [][ /\ Received'
              => LET u == ev'.user
                 IN  /\ ev'.created <=> (u \notin Tracked(sessions) \/ u \in Stale)
                     /\ ~ev'.created
                           => /\ SameConversation(ev'.start, heap[sessions[u]])
                              /\ ~ev'.result => sessions'[u] = sessions[u]
                     /\ (Stale = {} /\ ~ev'.result)
                           => Tracked(sessions') = Tracked(sessions) \cup {u}
           /\ ~Received' => Tracked(sessions') \subseteq Tracked(sessions) ]_vars

C13_Witness ==
    /\ Received
    /\ ~ev.created
    /\ Tracked(sessions) = Users
    /\ ev.start.conversation_history # <<>>
    /\ ev.start.current_context # "main"

GreetingInputs == {M_hi, M_Hello_padded, M_good_morning}

\* the inputs that are global commands
GlobalInputs == MenuInputs \cup BackInputs \cup QuitInputs \cup GreetingInputs

\* the number an input writes, -1 for an input that writes none
NumberOf(message) ==
    CASE message = M_0 -> 0
      [] message \in {M_1, M_1_padded} -> 1
      [] message = M_2 -> 2
      [] message = M_3 -> 3
      [] message = M_4 -> 4
      [] message = M_5 -> 5
      [] message = M_6 -> 6
      [] message = M_7 -> 7
      [] message = M_8 -> 8
      [] message = M_99 -> 99
      [] OTHER -> -1

\* the step just taken handled, from reception to reply, an input that is no
\* global command
Dispatched(context) ==
    /\ Handled /\ ~ev.resumed
    /\ ev.message \notin GlobalInputs
    /\ ev.start.current_context = context

\* C14: in search_results with N cached listings an input k, 1 <= k <= N,
\* leads to property_detail with context_data holding the k-th cached listing
\* and pushes the search_results frame; every other input is answered with a
\* reply of type error and changes nothing of the navigation state.
C14_SelectionInSearchResults ==
    Dispatched("search_results")
    => LET results == ev.start.context_data.results
           k       == NumberOf(ev.message)
       IN  IF 1 <= k /\ k <= Len(results)
           THEN /\ ev.type = "property_detail"
                /\ ev.after.current_context = "property_detail"
                /\ ev.after.context_data = [property |-> results[k]]
                /\ ev.after.navigation_stack
                      = Append(ev.start.navigation_stack, Frame(ev.start))
           ELSE /\ ev.type = "error"
                /\ NavOf(ev.after) = NavOf(ev.start)

\* the filters each sub-menu entry stands for, as the menus word them
PresetFilters(menu_type, k) ==
    CASE menu_type = "property_type" ->
            (CASE k = 1 -> [type |-> "APARTMENT"]
               [] k = 2 -> [type |-> "HOUSE"]
               [] k = 3 -> [type |-> "OFFICE"]
               [] OTHER -> EmptyDict)
      [] menu_type = "bedrooms" ->
            (IF k \in 1..5 THEN [bedrooms |-> k] ELSE EmptyDict)
      [] menu_type = "price" ->
            (CASE k = 1 -> [max_price |-> 25000000]
               [] k = 2 -> [min_price |-> 25000000, max_price |-> 50000000]
               [] k = 3 -> [min_price |-> 50000000, max_price |-> 100000000]
               [] k = 4 -> [min_price |-> 100000000, max_price |-> 200000000]
               [] k = 5 -> [min_price |-> 200000000]
               [] OTHER -> EmptyDict)
      [] menu_type = "location" ->
            (CASE k = 1 -> [city |-> "Lagos"]
               [] k = 2 -> [city |-> "Abuja"]
               [] k = 3 -> [city |-> "Port Harcourt"]
               [] k = 4 -> [city |-> "Kano"]
               [] k = 5 -> [city |-> "Ibadan"]
               [] OTHER -> EmptyDict)

\* the keys a sub-menu offers
PresetKeys(menu_type) == IF menu_type = "property_type" THEN 1..4 ELSE 1..6

\* the query the handler suspended last is waiting for
LastQuery == pending[Len(pending)].query

\* C15: in sub_menu "0" leads to main with an empty stack; a key of the active
\* menu suspends the handler in the query for that entry, the state
\* untouched, and when listings return the session enters search_results with
\* them and the sub_menu frame is pushed; every other input is answered with
\* a reply of type error and changes nothing of the navigation state.
C15_SubMenuSelection ==
    ( /\ ev.op \in {"handled", "suspended"}
      /\ ev.message \notin GlobalInputs
      /\ ev.start.current_context = "sub_menu" )
    => LET menu == ev.start.context_data.menu_type
           k    == NumberOf(ev.message)
       IN  CASE k = 0 ->
                   /\ Handled /\ ~ev.resumed
                   /\ ev.type = "menu"
                   /\ ev.after.current_context = "main"
                   /\ ev.after.navigation_stack = <<>>
             [] k \in PresetKeys(menu) /\ ~ev.resumed ->
                   /\ ev.op = "suspended"
                   /\ LastQuery.filters = PresetFilters(menu, k)
                   /\ NavOf(ev.after) = NavOf(ev.start)
             [] k \in PresetKeys(menu) /\ ev.resumed ->
                   (ev.properties # <<>> /\ ev.solo)
                   => /\ ~ev.raised => ev.type = "search_results"
                      /\ ev.after.current_context = "search_results"
                      /\ ev.after.context_data.results = ev.properties
                      /\ ev.after.navigation_stack
                            = Append(ev.start.navigation_stack, Frame(ev.start))
                      /\ Frame(ev.start).context = "sub_menu"
             [] OTHER ->
                   /\ Handled /\ ~ev.resumed
                   /\ ev.type = "error"
                   /\ NavOf(ev.after) = NavOf(ev.start)

C15_Witness ==
    /\ Handled /\ ev.resumed
    /\ ev.start.current_context = "sub_menu"
    /\ ev.start.context_data.menu_type = "bedrooms"
    /\ ev.message = M_6
    /\ ev.type = "search_results"
    /\ Len(ev.after.navigation_stack) = 1
    /\ ev.after.navigation_stack[1].context = "sub_menu"

\* the filters of the quick searches 1..4, as the main menu words them
QuickFilters(k) ==
    CASE k = 1 -> EmptyDict
      [] k = 2 -> [max_price |-> 50000000]
      [] k = 3 -> [city |-> "Lagos"]
      [] k = 4 -> [city |-> "Abuja"]

\* the tag of the sub-menu each of 5..8 opens
MenuTypeOf(k) ==
    CASE k = 5 -> "property_type"
      [] k = 6 -> "bedrooms"
      [] k = 7 -> "price"
      [] k = 8 -> "location"

\* C16: in main each of the digits 1-4 suspends the handler in one query with
\* the preset filters of that digit and, when listings return, the session
\* enters search_results with them cached and no frame is pushed; each of
\* 5-8 enters sub_menu with its menu_type tag and runs no query.
C16_MainMenuDigits ==
    ( /\ ev.op \in {"handled", "suspended"}
      /\ ev.message \notin GlobalInputs
      /\ ev.start.current_context = "main"
      /\ NumberOf(ev.message) \in 1..8 )
    => LET k == NumberOf(ev.message)
       IN  CASE k \in 1..4 /\ ~ev.resumed ->
                   /\ ev.op = "suspended"
                   /\ LastQuery.filters = QuickFilters(k)
                   /\ NavOf(ev.after) = NavOf(ev.start)
             [] k \in 1..4 /\ ev.resumed ->
                   (ev.properties # <<>> /\ ev.solo)
                   => /\ ~ev.raised => ev.type = "search_results"
                      /\ ev.after.current_context = "search_results"
                      /\ ev.after.context_data.results = ev.properties
                      /\ ev.after.last_search_results = ev.properties
                      /\ ev.after.navigation_stack = ev.start.navigation_stack
                      /\ ev.after.navigation_stack = <<>>
             [] OTHER ->
                   /\ Handled /\ ~ev.resumed
                   /\ ev.type = "menu"
                   /\ ev.after.current_context = "sub_menu"
                   /\ ev.after.context_data = [menu_type |-> MenuTypeOf(k)]
                   /\ ev.after.navigation_stack = ev.start.navigation_stack

C16_Witness ==
    /\ Handled /\ ev.resumed /\ ev.solo
    /\ ev.start.current_context = "main"
    /\ ev.message = M_3
    /\ ev.properties = <<1, 5>>
    /\ ev.after.current_context = "search_results"
    /\ ev.after.navigation_stack = <<>>

\* the step just taken belongs to a handler that met, in main, an input that
\* is neither a global command nor one of the digits 1-8
FreeTextInMain ==
    /\ ev.op \in {"handled", "suspended"}
    /\ ev.message \notin GlobalInputs
    /\ ev.start.current_context = "main"
    /\ NumberOf(ev.message) \notin 1..8

\* C17: in main an input that is no digit 1-8 and no global command goes to
\* the keyword extractor; when that yields a filter the handler is suspended
\* in one query with exactly the extracted filters and, when listings
\* return, the session enters search_results.
C17_FreeTextSearch ==
    (FreeTextInMain /\ extract_search_keywords(ev.message) # EmptyDict)
    => IF ~ev.resumed
       THEN /\ ev.op = "suspended"
            /\ LastQuery.filters = extract_search_keywords(ev.message)
            /\ NavOf(ev.after) = NavOf(ev.start)
       ELSE (ev.properties # <<>> /\ ev.solo)
            => /\ ev.after.current_context = "search_results"
               /\ ev.after.context_data.results = ev.properties
               /\ ev.properties
                     = search_properties(extract_search_keywords(ev.message),
                                         SearchLimit, ev.table, ev.db_raised)

C17_Witness ==
    /\ Handled /\ ev.resumed
    /\ ev.start.current_context = "main"
    /\ ev.message = M_exact_price
    /\ ev.properties = <<1, 5>>
    /\ ev.type = "search_results"
    /\ ev.after.current_context = "search_results"

\* C18: in main an input the extractor finds no filter in is rejected: the
\* reply is an error that echoes the input after "Unrecognized input", names
\* the menu and back commands and ends with the main menu; the session stays
\* in main with context_data and navigation_stack as they were.
C18_UnrecognizedInMain ==
    (FreeTextInMain /\ extract_search_keywords(ev.message) = EmptyDict)
    => /\ ev.op = "handled"
       /\ ~ev.resumed /\ ~ev.raised
       /\ ev.type = "error"
       /\ ev.reply.tpl = "unrecognized_main"
       /\ ev.reply.echo = ev.message
       /\ {"menu", "back"} \subseteq CommandsNamed(ev.reply.tpl)
       /\ ev.reply.tpl \in MainMenuTemplates
       /\ ev.after.current_context = "main"
       /\ ev.after.context_data = ev.start.context_data
       /\ ev.after.navigation_stack = ev.start.navigation_stack

C18_Witness ==
    /\ Handled
    /\ ev.start.current_context = "main"
    /\ ev.message = M_under_exact
    /\ ev.type = "error"
    /\ ev.reply.echo = M_under_exact
    /\ ev.after.current_context = "main"

\* the options _handle_search_results offers for n listings
IndexOptions(n) == [i \in 1..n |-> Str(i)] \o <<"back", "*">>

\* a session that shows a result list holds one to five distinct listings and
\* offers exactly their indexes, then back and *
ResultsShape(s) ==
    /\ "results" \in DOMAIN s.context_data
    /\ LET results == s.context_data.results
       IN  /\ Len(results) \in 1..5
           /\ \A i \in 1..Len(results) : results[i] \in Rows
           /\ \A i, j \in 1..Len(results) : results[i] = results[j] => i = j
           /\ s.available_options = IndexOptions(Len(results))

\* C19: whenever a session is in search_results, context_data holds a list of
\* N listings, 1 <= N <= 5, and available_options is "1".."N", "back", "*";
\* also after "back" returned the session to search_results.
C19_SearchResultsShape ==
    \A o \in ObjIds :
        (heap[o] # Blank /\ heap[o].current_context = "search_results")
        => ResultsShape(heap[o])

C19_Witness ==
    /\ Handled
    /\ ev.message \in BackInputs
    /\ ev.start.current_context = "property_detail"
    /\ ev.after.current_context = "search_results"
    /\ Len(ev.after.context_data.results) = 5
    /\ ev.after.available_options = <<"1", "2", "3", "4", "5", "back", "*">>
    /\ \E o \in ObjIds : heap[o] = ev.after

\* the contexts saved in a session's navigation stack
FrameContexts(s) ==
    {s.navigation_stack[i].context : i \in 1..Len(s.navigation_stack)}

\* C20: no frame of any navigation stack has context main, and a step that
\* leaves the stack longer than it found it left a context other than main.
C20_NoMainFrame ==
    /\ \A o \in ObjIds : heap[o] # Blank => "main" \notin FrameContexts(heap[o])
    /\ (ev.op \in {"handled", "suspended"}
           /\ Len(ev.after.navigation_stack) > Len(ev.mid.navigation_stack))
       => ev.mid.current_context # "main"

C20_Witness ==
    /\ Handled
    /\ ev.start.current_context = "search_results"
    /\ ev.start.navigation_stack = <<>>
    /\ ev.after.current_context = "property_detail"
    /\ Len(ev.after.navigation_stack) = 1
    /\ ev.after.navigation_stack[1].context = "search_results"
    /\ \E o \in ObjIds : heap[o] = ev.after

\* the shape of context_data that goes with each context
ContextShape(s) ==
    CASE s.current_context = "main" -> DOMAIN s.context_data = {}
      [] s.current_context = "sub_menu" ->
             /\ DOMAIN s.context_data = {"menu_type"}
             /\ s.context_data.menu_type \in {"property_type", "bedrooms", "price", "location"}
      [] s.current_context = "search_results" ->
             /\ "results" \in DOMAIN s.context_data
             /\ s.context_data.results \in Seq(Rows)
      [] s.current_context = "property_detail" ->
             /\ DOMAIN s.context_data = {"property"}
             /\ s.context_data.property \in Rows
      [] OTHER -> FALSE

\* C21: in every reachable session state context_data has the shape of the
\* current context: empty in main, a menu_type of the four in sub_menu, a
\* results list in search_results, a selected property in property_detail.
C21_ContextDataShape ==
    \A o \in ObjIds : heap[o] # Blank => ContextShape(heap[o])

C21_Witness ==
    /\ Handled
    /\ ev.after.current_context = "property_detail"
    /\ ev.after.context_data.property \in Rows
    /\ Len(ev.after.navigation_stack) = 2
    /\ ev.after.navigation_stack[1].context = "sub_menu"
    /\ ev.after.navigation_stack[1].data.menu_type = "property_type"
    /\ ev.after.navigation_stack[2].context = "search_results"
    /\ \E o \in ObjIds : heap[o] = ev.after

\* the records the step just taken appended: the user's message at a
\* reception, then the reply when the handler returned one
AppendedRecords ==
    (IF ev.resumed THEN <<>>
     ELSE << [timestamp |-> clock, type |-> "user_message", content |-> Verbatim(ev.message)] >>)
    \o (IF ev.op = "handled" /\ ~ev.raised
        THEN << [timestamp |-> clock, type |-> "bot_response", content |-> ev.reply] >>
        ELSE <<>>)

\* the last n elements of q, all of q when it has fewer
MostRecent(q, n) == [i \in 1..(IF Len(q) < n THEN Len(q) ELSE n) |-> q[i + Len(q) - (IF Len(q) < n THEN Len(q) ELSE n)]]

\* C22: no conversation_history has more than 20 records, and each step
\* leaves the most recent 20 of the records so far, in arrival order: what a
\* full history loses is its oldest record.
C22_HistoryKeepsMostRecent ==
    /\ \A o \in ObjIds : Len(heap[o].conversation_history) <= 20
    /\ ev.op \in {"handled", "suspended"}
       => ev.after.conversation_history
             = MostRecent(ev.mid.conversation_history \o AppendedRecords, 20)

C22_Witness ==
    /\ Handled
    /\ Len(ev.mid.conversation_history) = 20
    /\ Len(ev.after.conversation_history) = 20
    /\ ev.message = M_0
    /\ ev.mid.conversation_history[1].content = Verbatim(M_xyz)
    /\ ev.after.conversation_history[1].content = ev.mid.conversation_history[3].content
    /\ ev.after.conversation_history[19].content = Verbatim(M_0)

\* listing r meets the constraint that key k of a filter mapping states
Satisfies(r, filters, k) ==
    CASE k = "city" -> LowerStr(Listing[r].city) = LowerStr(filters[k])
      [] k = "type" -> Listing[r].type = filters[k]
      [] k = "bedrooms" -> Listing[r].bedrooms = filters[k]
      [] k = "min_price" -> Listing[r].price >= filters[k]
      [] k = "max_price" -> Listing[r].price <= filters[k]
      [] OTHER -> TRUE

\* C23: every listing a search returns is active and satisfies every filter
\* present in the mapping the search was called with; the empty mapping
\* returns the active listings.
C23_SearchAppliesEveryFilter ==
    (Handled /\ ev.resumed /\ ~ev.db_raised)
    => /\ \A i \in 1..Len(ev.properties) :
              /\ Listing[ev.properties[i]].status = "ACTIVE"
              /\ \A k \in DOMAIN ev.query.filters :
                     Satisfies(ev.properties[i], ev.query.filters, k)
       /\ ev.query.filters = EmptyDict
          => ev.properties
                = Take(Ordered({r \in ev.table : Listing[r].status = "ACTIVE"}), 5)

\* the filters "3 bedroom apartments in Lagos" stands for
NaturalFilters == [bedrooms |-> 3, type |-> "APARTMENT", city |-> "Lagos"]

\* the active three-bedroom apartments of Lagos among the rows of a table
NaturalRows(table) ==
    {r \in table : /\ Listing[r].status = "ACTIVE"
                   /\ Listing[r].bedrooms = 3
                   /\ Listing[r].type = "APARTMENT"
                   /\ LowerStr(Listing[r].city) = LowerStr("Lagos")}

\* C24: "3 bedroom apartments in Lagos" sent in main makes the extractor
\* yield exactly {bedrooms: 3, type: APARTMENT, city: Lagos}; the query is
\* made with exactly these filters and selects by them and by active status
\* only.
C24_NaturalQueryFilters ==
    (ev.op \in {"handled", "suspended"} /\ ev.message = M_natural
        /\ ev.start.current_context = "main")
    => /\ extract_search_keywords(ev.message) = NaturalFilters
       /\ ev.query.filters = NaturalFilters
       /\ ~ev.resumed => ev.op = "suspended"
       /\ (ev.resumed /\ ~ev.db_raised)
          => /\ \A i \in 1..Len(ev.properties) : ev.properties[i] \in NaturalRows(ev.table)
             /\ Len(ev.properties)
                   = (IF Cardinality(NaturalRows(ev.table)) < 5
                      THEN Cardinality(NaturalRows(ev.table)) ELSE 5)

C24_Witness ==
    /\ Handled /\ ev.resumed
    /\ ev.message = M_natural
    /\ ev.start.current_context = "main"
    /\ ev.query.filters = NaturalFilters
    /\ ev.table = {1, 2, 3, 5}
    /\ ev.properties = <<1, 5>>

\* the numbers a session accepts in its current context
ValidRange(s) ==
    CASE s.current_context = "main" -> 1..8
      [] s.current_context = "search_results" -> 1..Len(s.context_data.results)
      [] s.current_context = "property_detail" -> 1..2
      [] s.current_context = "sub_menu" ->
             IF s.context_data.menu_type = "property_type" THEN 0..4 ELSE 0..6
      [] OTHER -> {}

\* the step just taken answered with a rejection
Rejected == Handled /\ ~ev.raised /\ ev.type = "error"

\* what C25 asks of a rejection, but for the commands it offers
EchoesAndNamesRange ==
    /\ ev.reply.echo = ev.message
    /\ RangeNamed(ev.reply) = ValidRange(ev.mid)

\* C25: every rejection echoes the input, names the valid range of the
\* current context and offers menu and back, in main only menu.
C25_RejectionContent ==
    Rejected
    => /\ EchoesAndNamesRange
       /\ CommandsNamed(ev.reply.tpl)
             = (IF ev.mid.current_context = "main" THEN {"menu"} ELSE {"menu", "back"})

\* the frame "back" pops from the session the message found
TopFrame == ev.start.navigation_stack[Len(ev.start.navigation_stack)]

\* C26: handling "back" makes no query: the handler finishes in the step
\* that received the message, and a result list or a listing it returns to
\* is the one cached in the popped frame, shown again as it was cached.
C26_BackRendersFromCache ==
    (ev.op \in {"handled", "suspended"} /\ ev.message \in BackInputs)
    => /\ ev.op = "handled" /\ ~ev.resumed
       /\ ev.query = NoQuery
       /\ (ev.start.navigation_stack # <<>> /\ TopFrame.context = "search_results")
          => /\ ev.after.current_context = "search_results"
             /\ ev.after.context_data.results = TopFrame.data.results
             /\ ~ev.raised => /\ ev.type = "search_results"
                              /\ ev.reply.rows = TopFrame.data.results
       /\ (ev.start.navigation_stack # <<>> /\ TopFrame.context = "property_detail")
          => /\ ev.after.current_context = "property_detail"
             /\ ev.after.context_data.property = TopFrame.data.property
             /\ ~ev.raised => /\ ev.type = "property_detail"
                              /\ ev.reply.rows = <<TopFrame.data.property>>

C26_Witness ==
    /\ Handled /\ ev.message \in BackInputs
    /\ ev.start.navigation_stack # <<>>
    /\ TopFrame.context = "property_detail"
    /\ ev.after.current_context = "property_detail"
    /\ ev.reply.rows = <<TopFrame.data.property>>
    /\ {} \in scn.tables \/ {4} \in scn.tables

\* the users whose session in the store has not expired
Fresh ==
    {u \in Users : sessions[u] # 0 /\ clock - heap[sessions[u]].last_activity <= SessionTimeout}

\* C27: the end-session endpoint removes the named user's session and
\* reports success when the store holds one, and reports not_found and
\* changes nothing when it holds none; every other user's session is left as
\* it was; the statistics endpoint reports the number of sessions in the
\* store that have not expired.
C27_AdminEndpoints ==
    [][ /\ ev'.op = "end_session"
           => /\ ev'.result = (sessions[ev'.user] # 0)
              /\ sessions'[ev'.user] = 0
              /\ \A v \in Users \ {ev'.user} :
                     /\ sessions'[v] = sessions[v]
                     /\ sessions[v] # 0 => heap'[sessions[v]] = heap[sessions[v]]
        /\ ev'.op = "stats"
           => ev'.active_sessions = Cardinality(Fresh) ]_vars

C27_Witness ==
    /\ ev.op = "end_session"
    /\ ev.result
    /\ sessions[ev.user] = 0
    /\ \E v \in Users \ {ev.user} : sessions[v] # 0
    /\ prev.op = "handled"

\* C28: in property_detail "1" is answered with type interest, "2" with type
\* inspection and any other input that is no global command with type
\* error; in each case current_context, context_data, available_options and
\* navigation_stack stay as they were.
C28_PropertyDetailOptions ==
    (ev.op \in {"handled", "suspended"} /\ ~ev.resumed
        /\ ev.start.current_context = "property_detail"
        /\ ev.message \notin GlobalInputs)
    => /\ ev.op = "handled" /\ ~ev.raised
       /\ ev.type = (CASE NumberOf(ev.message) = 1 -> "interest"
                       [] NumberOf(ev.message) = 2 -> "inspection"
                       [] OTHER -> "error")
       /\ NavOf(ev.after) = NavOf(ev.start)

C28_Witness ==
    /\ Handled
    /\ ev.start.current_context = "property_detail"
    /\ ev.message = M_2
    /\ ev.type = "inspection"
    /\ ev.after.current_context = "property_detail"
    /\ prev.op = "handled" /\ prev.type = "property_detail"

\* the step just taken received a greeting
Greeted == ev.op \in {"handled", "suspended"} /\ ~ev.resumed /\ ev.message \in GreetingInputs

\* the greeting templates a history shows its user was sent
TemplatesIn(history) ==
    {history[i].content.count :
        i \in {j \in 1..Len(history) : /\ history[j].type = "bot_response"
                                       /\ history[j].content.tpl = "greeting"}}

BackLimit == 8

\* the session after n further "back" messages, each handled to the end
RECURSIVE Backs(_, _)
Backs(s, n) ==
    IF n = 0 THEN s
    ELSE Backs(handle_user_message(s, M_back, 0, {}, FALSE, s.last_activity), n - 1)

\* sending "back" repeatedly brings session s to main
BacksOut(s) == \E n \in 0..BackLimit : Backs(s, n).current_context = "main"

\* C30: from every reachable session state, sending "back" repeatedly
\* reaches main after finitely many messages, also after a property detail
\* was visited and left again for the result list.
C30_BackReachesMain ==
    \A o \in ObjIds : heap[o] # Blank => BacksOut(heap[o])

\* the contexts of a session's frames, bottom first
StackContexts(s) == [i \in 1..Len(s.navigation_stack) |-> s.navigation_stack[i].context]

\* C31: when one user's messages are handled one at a time the navigation
\* stack never holds more than two frames, a sub_menu frame below a
\* search_results frame at most.
C31_StackDepthBounded ==
    scn.inflight = 1
    => \A o \in ObjIds :
           heap[o] # Blank
           => /\ Len(heap[o].navigation_stack) <= 2
              /\ StackContexts(heap[o])
                    \in {<<>>, <<"sub_menu">>, <<"search_results">>,
                         <<"sub_menu", "search_results">>}

\* the reply of the step just taken ends with the main menu
ShowsMainMenu == Handled /\ ~ev.raised /\ ev.reply.tpl \in MainMenuTemplates

\* C32: whenever a reply shows the main menu, the session is in main once
\* the message is handled.
C32_MainMenuShownInMain ==
    ShowsMainMenu => ev.after.current_context = "main"

\* the session the store holds for the user of the step just taken
Stored == heap[sessions[ev.user]]

\* C33: under every interleaving, when a handler returns a reply of type
\* search_results or property_detail, the store holds a session for its user
\* and that session is in the context of the reply, with the listings the
\* reply shows.
C33_ReplyMatchesStoredSession ==
    /\ (Handled /\ ~ev.raised /\ ev.type = "search_results")
       => /\ sessions[ev.user] # 0
          /\ Stored.current_context = "search_results"
          /\ Stored.context_data.results = ev.reply.rows
    /\ (Handled /\ ~ev.raised /\ ev.type = "property_detail")
       => /\ sessions[ev.user] # 0
          /\ Stored.current_context = "property_detail"
          /\ <<Stored.context_data.property>> = ev.reply.rows

\* C34: a session removed from the store is not put back by a handler that
\* was already in flight: a user absent from the store stays absent until a
\* message of that user is received, which creates a new session object that
\* no handler in flight holds.
C34_RemovedStaysRemoved ==
    [][ \A u \in Users :
            (sessions[u] = 0 /\ sessions'[u] # 0)
            => /\ ev'.op \in {"handled", "suspended"}
               /\ ~ev'.resumed
               /\ ev'.user = u
               /\ ev'.created
               /\ \A i \in 1..Len(pending) : pending[i].obj # sessions'[u] ]_vars

C34_Witness ==
    /\ Handled /\ ev.resumed
    /\ sessions[ev.user] = 0
    /\ prev.user = ev.user
    /\ prev.op \in {"handled", "end_session"}
    /\ prev.result

\* the step just taken ended a handler with the generic apology
Apologised == Handled /\ ev.raised /\ ev.reply = Apology

\* C35: whenever the reply to a message is the generic apology, the
\* session's current_context, context_data, available_options and
\* navigation_stack are what they were before the message.
C35_ApologyLeavesStateAlone ==
    (Apologised /\ ev.solo) => NavOf(ev.after) = NavOf(ev.start)

\* C36: a lookup call removes no session that has been idle for two hours
\* or less (the caller's own session goes only when the message is a quit
\* word); a received message leaves its session's last_activity at the time
\* of the call and finds the session the store held when that was idle for
\* two hours or less; a handler that resumes never moves last_activity back.
C36_SweepSparesFreshSessions ==
    [][ /\ LookupStep
           => \A u \in Tracked(sessions) \ Stale :
                  \/ sessions'[u] = sessions[u]
                  \/ ev'.op = "handled" /\ ev'.user = u /\ ev'.result
        /\ Received'
           => /\ ev'.after.last_activity = clock
              /\ ev'.user \in Tracked(sessions) \ Stale
                 => /\ ~ev'.created
                    /\ ev'.start.conversation_history
                          = heap[sessions[ev'.user]].conversation_history
        /\ (ev'.op = "handled" /\ ev'.resumed)
           => ev'.after.last_activity >= ev'.mid.last_activity ]_vars

C36_Witness ==
    /\ Received
    /\ ~ev.created
    /\ ev.start.conversation_history # <<>>
    /\ prev.op = "tick"
    /\ \E u \in Tracked(sessions) \ {ev.user} : clock - heap[sessions[u]].last_activity = 2

\* the message just received came more than two hours after the last
\* activity of the session the store held for its user
ReceivedLate ==
    Received /\ ev.found # Blank /\ clock - ev.found.last_activity > 2

\* C37: a message received more than two hours after its user's last
\* activity is handled in a newly created session, in main with an empty
\* stack and no earlier history, whatever context the old session was in.
C37_LateMessageStartsAfresh ==
    ReceivedLate
    => /\ ev.created
       /\ ev.user \in ev.evicted
       /\ ev.start.user_id = ev.user
       /\ ev.start.current_context = "main"
       /\ ev.start.context_data = EmptyDict
       /\ ev.start.navigation_stack = <<>>
       /\ ev.start.conversation_history = <<>>
       /\ ev.after.conversation_history[1].content = Verbatim(ev.message)
       /\ NumberOf(ev.message) = 1 => ev.op = "suspended"

C37_Witness ==
    /\ ReceivedLate
    /\ ev.found.current_context = "search_results"
    /\ ev.found.conversation_history # <<>>
    /\ ev.message = M_1
    /\ ev.op = "suspended"
    /\ ev.start.current_context = "main"

\* what the statistics and session_info show of a session
Reported(s) == [menu |-> s.current_menu, step |-> s.conversation_step, filters |-> s.search_filters]

\* C38: after any sequence of messages every session has current_menu
\* "main", conversation_step 0 and no search filter, and so has every frame
\* saved on a navigation stack: what the statistics and session_info report
\* never tells where the user is.
C38_MenuStepAndFiltersNeverMove ==
    /\ \A o \in ObjIds :
           /\ Reported(heap[o]) = [menu |-> "main", step |-> 0, filters |-> EmptyDict]
           /\ \A i \in 1..Len(heap[o].navigation_stack) :
                  /\ heap[o].navigation_stack[i].menu = "main"
                  /\ heap[o].navigation_stack[i].step = 0
    /\ ev.op \in {"handled", "suspended"}
       => Reported(ev.after) = [menu |-> "main", step |-> 0, filters |-> EmptyDict]

C38_Witness ==
    /\ Handled /\ ev.message \in BackInputs
    /\ ev.start.current_context = "property_detail"
    /\ Len(ev.start.navigation_stack) = 2
    /\ ev.after.current_context = "search_results"
    /\ Reported(ev.after) = [menu |-> "main", step |-> 0, filters |-> EmptyDict]
    /\ ev.after.conversation_history # <<>>

\* the active listings of a table with five bedrooms or more
FiveOrMore(table) ==
    {r \in table : Listing[r].status = "ACTIVE" /\ Listing[r].bedrooms >= 5}

\* C39: option 5 of the bedrooms sub-menu, "5+ Bedrooms", searches the
\* active listings with five bedrooms or more: the listings returned are the
\* first five of those.
C39_FivePlusBedrooms ==
    (Handled /\ ev.resumed /\ ~ev.db_raised
        /\ ev.start.current_context = "sub_menu"
        /\ ev.start.context_data.menu_type = "bedrooms"
        /\ NumberOf(ev.message) = 5)
    => ev.properties = Take(Ordered(FiveOrMore(ev.table)), 5)

(***************************************************************************)
(* The price rules of the keyword extractor, read off the messages the     *)
(* handlers receive.                                                       *)
(***************************************************************************)
\* the ceiling pattern "under <amount> million" matches the message
CeilingMatches(message) == UnderStarts(lower(message)) # {}

\* a currency-marked amount is present in the message
CurrencyAmount(message) == ExactStarts(lower(message)) # {}

\* the word "under" occurs somewhere in the message
SaysUnder(message) == Contains(lower(message), W_under)

\* the amount of the leftmost ceiling match, in units
CeilingAmount(message) ==
    Millions(RemoveCommas(GroupText(lower(message),
        Leftmost(UnderGroupStarts(lower(message), Leftmost(UnderStarts(lower(message))))))))

HasBand(f, target) ==
    /\ {"min_price", "max_price"} \subseteq DOMAIN f
    /\ f.min_price * 10 = target * 8
    /\ f.max_price * 10 = target * 12

PriceRules(message, band_when) ==
    LET f == extract_search_keywords(message)
    IN  /\ CeilingMatches(message)
           => /\ "max_price" \in DOMAIN f
              /\ f.max_price = CeilingAmount(message)
              /\ "min_price" \notin DOMAIN f
        /\ band_when <=> "min_price" \in DOMAIN f
        /\ band_when => HasBand(f, TargetPrice(lower(message)))
        /\ "min_price" \in DOMAIN f
           => "max_price" \in DOMAIN f /\ f.min_price <= f.max_price

\* C40 as stated: for every message received, an "under <amount> million"
\* clause yields max_price = amount x 1,000,000 and no min_price; the price
\* band (0.8 x target, 1.2 x target) is produced exactly when a
\* currency-marked amount is present and the ceiling rule did not match;
\* min_price never comes without max_price and min_price <= max_price.
C40_PriceRulesAsStated ==
    Received
    => PriceRules(ev.message, CurrencyAmount(ev.message) /\ ~CeilingMatches(ev.message))

\* C40: for every message received, an "under <amount> million" clause
\* yields max_price = amount x 1,000,000 and no min_price; the price band
\* (0.8 x target, 1.2 x target) is produced exactly when a currency-marked
\* amount is present and the word "under" occurs nowhere in the message;
\* min_price never comes without max_price and min_price <= max_price.
C40_PriceRules ==
    Received
    => PriceRules(ev.message, CurrencyAmount(ev.message) /\ ~SaysUnder(ev.message))

\* a message with a currency-marked amount and no "under" was received:
\* the band around 50,000,000 is produced
C40_Witness ==
    /\ Received
    /\ ev.message = M_exact_price
    /\ CurrencyAmount(ev.message) /\ ~SaysUnder(ev.message)
    /\ extract_search_keywords(ev.message).min_price = 40000000
    /\ extract_search_keywords(ev.message).max_price = 60000000

====
